---------------------------- MODULE Spec2Model ----------------------------
(***************************************************************************)
(* A model of the Thymus-timeseries Timeseries class: the paired           *)
(* dseries/tseries arrays, the row locator (row_no), truncation (trunc,    *)
(* truncdate, slicing), the date-keyed merges (extend, add, replace,       *)
(* combine), the container operators and the frequency conversion.        *)
(*                                                                         *)
(* A series is a record                                                    *)
(*   dseries        the dates, in native encoding (ordinal or timestamp)   *)
(*   tseries        the rows of values; every row is stored flattened      *)
(*   dims           tseries.shape[1:] : << >> for a flat (1-D) array,      *)
(*                  <<c>> for a table with c columns                       *)
(*   dtype          the dtype of dseries: "int32" or "float64"             *)
(*   frequency, end_of_period                                              *)
(* Timestamps are whole seconds (the float x.0 is the integer x) and the   *)
(* local time zone is taken to be UTC.                                     *)
(***************************************************************************)
EXTENDS Integers, Sequences, FiniteSets, TLC

VARIABLES ts, other, out, op, old, steps, heap

vars == <<ts, other, out, op, old, steps, heap>>

(***************************************************************************)
(* Bounds of the model.                                                    *)
(***************************************************************************)
MaxLen == 2

MaxSteps == 2

(***************************************************************************)
(* constants.py                                                            *)
(***************************************************************************)
FREQ_DAYTYPES == {"d", "w", "m", "q", "y"}

FREQ_IDAYTYPES == {"h", "min", "sec"}

HIERARCHY == <<"sec", "min", "h", "d", "m", "q", "y">>

(***************************************************************************)
(* Generic helpers on sequences.                                           *)
(***************************************************************************)
Min(a, b) == IF a < b THEN a ELSE b

Max(a, b) == IF a > b THEN a ELSE b

Rev(s) == [i \in 1..Len(s) |-> s[Len(s) + 1 - i]]

\* The Python slice s[a:b] for a, b >= 0.
Slice(s, a, b) ==
    LET lo == Min(a, Len(s))
        hi == Min(b, Len(s))
    IN  IF lo >= hi THEN << >> ELSE SubSeq(s, lo + 1, hi)

Range(s) == {s[i] : i \in 1..Len(s)}

\* Python's str < str: code points compared left to right, a proper prefix first.
LexLess(a, b) ==
    \E i \in 1..Len(b) :
        /\ \A j \in 1..(i - 1) : j <= Len(a) /\ a[j] = b[j]
        /\ (i > Len(a) \/ a[i] < b[i])

RECURSIVE SortAsc(_)
\* sorted(keys): the strings of K in ascending string order.
SortAsc(K) ==
    IF K = {} THEN << >>
    ELSE LET m == CHOOSE k \in K : \A j \in K : j = k \/ LexLess(k, j)
         IN  <<m>> \o SortAsc(K \ {m})

Sorted(K, reverse) == IF reverse THEN Rev(SortAsc(K)) ELSE SortAsc(K)

(***************************************************************************)
(* str(date) and its parse.  A string is the sequence of its code points   *)
(* ("0" is 48, "." is 46).                                                 *)
(***************************************************************************)
RECURSIVE Digits(_)
Digits(n) == IF n < 10 THEN <<48 + n>> ELSE Append(Digits(n \div 10), 48 + (n % 10))

RECURSIVE ParseDigits(_)
ParseDigits(s) ==
    IF Len(s) = 0 THEN 0
    ELSE 10 * ParseDigits(SubSeq(s, 1, Len(s) - 1)) + (s[Len(s)] - 48)

get_date_series_type(frequency) ==
    IF frequency \in FREQ_DAYTYPES THEN "ordinal"
    ELSE IF frequency \in FREQ_IDAYTYPES THEN "timestamp"
    ELSE "error"

\* str(date) of a date taken from dseries.tolist(): an int32 prints its
\* digits, a float64 prints its digits followed by ".0".
StrDate(dtype, date) ==
    IF dtype = "int32" THEN Digits(date) ELSE Digits(date) \o <<46, 48>>

\* The date string has a fractional part.
HasPoint(s) == \E i \in 1..Len(s) : s[i] = 46

\* The number a date string stands for.
ParseDate(s) ==
    IF HasPoint(s) THEN ParseDigits(SubSeq(s, 1, Len(s) - 2)) ELSE ParseDigits(s)

(***************************************************************************)
(* The calendar of datetime.date / datetime.datetime (proleptic Gregorian, *)
(* ordinal 1 is Monday 0001-01-01), as datetime_series and get_datetime    *)
(* use it.                                                                 *)
(***************************************************************************)
\* date.fromordinal(n) as year, month, day.
fromordinal(n) ==
    LET z   == n + 305
        era == z \div 146097
        doe == z - era * 146097
        yoe == (doe - (doe \div 1460) + (doe \div 36524) - (doe \div 146096)) \div 365
        doy == doe - (365 * yoe + (yoe \div 4) - (yoe \div 100))
        mp  == (5 * doy + 2) \div 153
        d   == doy - ((153 * mp + 2) \div 5) + 1
        m   == IF mp < 10 THEN mp + 3 ELSE mp - 9
        y   == yoe + era * 400 + (IF m <= 2 THEN 1 ELSE 0)
    IN  [year |-> y, month |-> m, day |-> d]

\* date.weekday(): Monday is 0.
weekday(n) == (n + 6) % 7

\* The date or datetime object of one native date: its fields, and whether it
\* is a datetime (a date object has no hour, minute or second attribute).
get_datetime(frequency, date) ==
    IF get_date_series_type(frequency) = "ordinal"
    THEN LET c == fromordinal(date)
         IN  [isdatetime |-> FALSE, ordinal |-> date, year |-> c.year,
              month |-> c.month, day |-> c.day,
              hour |-> 0, minute |-> 0, second |-> 0]
    ELSE LET o == (date \div 86400) + 719163
             c == fromordinal(o)
         IN  [isdatetime |-> TRUE, ordinal |-> o, year |-> c.year,
              month |-> c.month, day |-> c.day,
              hour |-> (date % 86400) \div 3600,
              minute |-> (date % 3600) \div 60,
              second |-> date % 60]

datetime_series(s) ==
    [i \in 1..Len(s.dseries) |-> get_datetime(s.frequency, s.dseries[i])]

(***************************************************************************)
(* Series Data Model                                                       *)
(***************************************************************************)
\* tseries.shape has one entry: a flat series.
IsFlat(s) == s.dims = << >>

\* A receiver whose make_arrays failed holds Python lists, not arrays.
ListMark == <<-1>>

IsArray(s) == s.dims # ListMark

series_direction(s) ==
    IF Len(s.dseries) > 1
    THEN IF s.dseries[1] < s.dseries[Len(s.dseries)] THEN 1 ELSE -1
    ELSE 0

reverse(s) == [s EXCEPT !.tseries = Rev(s.tseries), !.dseries = Rev(s.dseries)]

\* to_dict()["data"]: the rows keyed by str(date); a later row with the same
\* key replaces an earlier one.  Each row keeps the shape it has as a list.
to_dict(s) ==
    LET n      == Len(s.tseries)
        key(i) == StrDate(s.dtype, s.dseries[i])
    IN  [k \in {key(i) : i \in 1..n} |->
            LET last == CHOOSE i \in 1..n :
                            key(i) = k /\ \A j \in 1..n : key(j) = k => j <= i
            IN  [v |-> s.tseries[last], dims |-> s.dims]]

\* make_arrays on the lists rebuilt from a dict: the values first, then the
\* dates, as int32 for an ordinal frequency (a string with a fractional part
\* is then no integer literal) and float64 otherwise.  A ragged list of
\* values or an unreadable date raises ValueError and leaves a list behind.
make_arrays(s, dlist, rows) ==
    LET n       == Len(rows)
        uniform == \A i \in 1..n : rows[i].dims = rows[1].dims
        ordinal == get_date_series_type(s.frequency) = "ordinal"
        dates   == [i \in 1..Len(dlist) |-> ParseDate(dlist[i])]
        built   == [s EXCEPT !.dseries = dates,
                             !.tseries = [i \in 1..n |-> rows[i].v],
                             !.dims = IF n = 0 THEN << >> ELSE rows[1].dims,
                             !.dtype = IF ordinal THEN "int32" ELSE "float64"]
    IN  IF ~uniform \/ (ordinal /\ \E i \in 1..Len(dlist) : HasPoint(dlist[i]))
        THEN [raised |-> "ValueError", ts |-> [built EXCEPT !.dims = ListMark]]
        ELSE [raised |-> "none", ts |-> built]

\* The loop "for date, value in sorted(d.items(), reverse=reverse)" followed
\* by make_arrays.
from_items(s, d, rev) ==
    LET keys == Sorted(DOMAIN d, rev)
    IN  make_arrays(s, keys, [i \in 1..Len(keys) |-> d[keys[i]]])

sort_by_date(s, rev, force) ==
    IF force THEN from_items(s, to_dict(s), rev)
    ELSE IF ~rev /\ series_direction(s) = 1 THEN [raised |-> "none", ts |-> s]
    ELSE IF rev /\ series_direction(s) = -1 THEN [raised |-> "none", ts |-> s]
    ELSE [raised |-> "none", ts |-> reverse(s)]

\* deepcopy: a value of the model is its own copy.
clone(s) == s

(***************************************************************************)
(* Row locator and truncation                                              *)
(***************************************************************************)
\* np.argwhere(cond): the 0-based indices of the rows for which cond holds.
argwhere(s, rel, rdate) ==
    {i - 1 : i \in {j \in 1..Len(s.dseries) :
                       IF rel = "==" THEN s.dseries[j] = rdate
                       ELSE IF rel = "<=" THEN s.dseries[j] <= rdate
                       ELSE s.dseries[j] >= rdate}}

SetMax(S) == CHOOSE x \in S : \A y \in S : y <= x

SetMin(S) == CHOOSE x \in S : \A y \in S : x <= y

\* row_no that takes every series for an ascending one.
row_no_ascending(s, rowdate, closest, no_error) ==
    LET selected == IF closest = 0 THEN argwhere(s, "==", rowdate)
                    ELSE IF closest = -1 THEN argwhere(s, "<=", rowdate)
                    ELSE argwhere(s, ">=", rowdate)
    IN  IF selected = {} THEN [raised |-> "ValueError", row |-> -1]
        ELSE [raised |-> "none",
              row |-> IF closest = -1 THEN SetMax(selected) ELSE SetMin(selected)]

\* row_no(rowdate, closest, no_error) for closest in [-1, 0, 1].  With
\* closest = -1 or 1 and an empty selection the code sets the sentinel and
\* goes on to selected.max()/selected.min(), which raises ValueError on an
\* empty array.
row_no(s, rowdate, closest, no_error) ==
    LET series_dir == series_direction(s)
        selected   == IF closest = 0 THEN argwhere(s, "==", rowdate)
                      ELSE IF closest = -1 THEN argwhere(s, "<=", rowdate)
                      ELSE argwhere(s, ">=", rowdate)
    IN  IF closest \notin {-1, 0, 1} THEN [raised |-> "ValueError", row |-> -1]
        ELSE IF closest = 0
        THEN IF selected = {}
             THEN IF no_error THEN [raised |-> "none", row |-> -1]
                  ELSE [raised |-> "ValueError", row |-> -1]
             ELSE [raised |-> "none", row |-> SetMin(selected)]
        ELSE IF closest = -1
        THEN IF selected = {}
             THEN [raised |-> "ValueError", row |-> -1]
             ELSE [raised |-> "none",
                   row |-> IF series_dir = 1 THEN SetMax(selected) ELSE SetMin(selected)]
        ELSE IF selected = {}
             THEN [raised |-> "ValueError", row |-> -1]
             ELSE [raised |-> "none",
                   row |-> IF series_dir = 1 THEN SetMin(selected) ELSE SetMax(selected)]

\* trunc that takes finish for the last row kept instead of the row after it.
trunc_inclusive(s, start, finish) ==
    [s EXCEPT !.tseries = Slice(s.tseries, start, finish + 1),
              !.dseries = Slice(s.dseries, start, finish + 1)]

\* trunc(start, finish) on the receiver; None and 0 are both false in
\* "if start and finish", so 0 stands for None.
trunc(s, start, finish) ==
    IF start # 0 /\ finish # 0
    THEN [s EXCEPT !.tseries = Slice(s.tseries, start, finish),
                   !.dseries = Slice(s.dseries, start, finish)]
    ELSE IF start # 0
    THEN [s EXCEPT !.tseries = Slice(s.tseries, start, Len(s.tseries)),
                   !.dseries = Slice(s.dseries, start, Len(s.dseries))]
    ELSE IF finish # 0
    THEN [s EXCEPT !.tseries = Slice(s.tseries, 0, finish),
                   !.dseries = Slice(s.dseries, 0, finish)]
    ELSE s

\* series[a:b] : a clone holding dseries[a:b] and tseries[a:b].
getitem(s, a, b) ==
    [clone(s) EXCEPT !.dseries = Slice(s.dseries, a, b),
                     !.tseries = Slice(s.tseries, a, b)]

\* truncdate(start, finish, new); a pair given as start has been unpacked
\* into start and finish (lines 835-836), 0 stands for None.  The result is
\* the receiver afterwards (self), what is returned (ret) and what is raised.
truncdate(s, start, finish, new) ==
    LET series_dir == series_direction(s)
        self1      == IF series_dir = -1 THEN reverse(s) ELSE s
        start2     == IF start # 0 /\ finish # 0 THEN Min(start, finish) ELSE start
        finish2    == IF start # 0 /\ finish # 0 THEN Max(start2, finish) ELSE finish
        sr         == row_no(self1, start2, 1, FALSE)
        fr         == row_no(self1, finish2, -1, FALSE)
        back(x)    == IF series_dir = -1 THEN reverse(x) ELSE x
        done(self2, tmp) ==
            [raised |-> "none", self |-> back(self2),
             ret |-> IF new THEN <<back(tmp)>> ELSE << >>]
        fail       == [raised |-> "ValueError", self |-> self1, ret |-> << >>]
    IN  IF start # 0 /\ finish # 0
        THEN IF sr.raised # "none" \/ fr.raised # "none" THEN fail
             ELSE IF new THEN done(self1, getitem(self1, sr.row, fr.row + 1))
             ELSE done(trunc(self1, sr.row, fr.row + 1), self1)
        ELSE IF start # 0
        THEN IF sr.raised # "none" THEN fail
             ELSE IF new THEN done(self1, getitem(self1, sr.row, Len(self1.dseries)))
             ELSE done(trunc(self1, sr.row, 0), self1)
        ELSE IF finish # 0
        THEN IF fr.raised # "none" THEN fail
             ELSE IF new THEN done(self1, getitem(self1, 0, fr.row + 1))
             ELSE done(trunc(self1, 0, fr.row + 1), self1)
        ELSE done(self1, clone(self1))

(***************************************************************************)
(* Date-keyed merges                                                       *)
(***************************************************************************)
\* _column_checks(ts1, ts2): the two value arrays do not have the same columns.
column_mismatch(s1, s2) ==
    \/ Len(s1.dims) = 1 /\ Len(s2.dims) # 1
    \/ Len(s1.dims) # 1 /\ Len(s2.dims) = 1
    \/ Len(s1.dims) = 1 /\ Len(s2.dims) = 1 /\ s1.dims # s2.dims

\* tseries.shape
shape(s) == <<Len(s.tseries)>> \o s.dims

\* extend that overlays whatever the overlay argument says.
extend_overlaying(s, o, overlay) ==
    LET self_dict == to_dict(s)
        ts_dict   == to_dict(o)
    IN  from_items(s, [k \in DOMAIN self_dict \cup DOMAIN ts_dict |->
                          IF k \in DOMAIN ts_dict THEN ts_dict[k] ELSE self_dict[k]],
                   series_direction(s) = -1)

\* extend(ts, overlay) on the receiver s: the receiver afterwards and what
\* is raised.
extend(s, o, overlay) ==
    LET rev       == series_direction(s) = -1
        self_dict == to_dict(s)
        ts_dict   == to_dict(o)
        merged    == [k \in DOMAIN self_dict \cup DOMAIN ts_dict |->
                         IF k \in DOMAIN ts_dict THEN ts_dict[k] ELSE self_dict[k]]
    IN  IF ~overlay /\ DOMAIN self_dict \cap DOMAIN ts_dict # {}
        THEN [raised |-> "ValueError", ts |-> s]
        ELSE from_items(s, merged, rev)

\* A comparison of the date arrays that looks at their lengths only.
if_dseries_match_by_length(s, o) == Len(s.dseries) = Len(o.dseries)

\* if_dseries_match(ts): np.array_equal of the two date arrays.
if_dseries_match(s, o) == s.dseries = o.dseries

\* a += b on two rows of the same shape.
RowSum(a, b) == [i \in 1..Len(a) |-> a[i] + b[i]]

\* np.zeros(shape) + value: every row of the block of zeros gets the value.
ZerosPlus(shp, value) ==
    [i \in 1..(shp[1] * Len(value)) |-> value[((i - 1) % Len(value)) + 1]]

\* add(ts, match): what is returned (ret) and what is raised; the receiver
\* is not changed.
add(s, o, match) ==
    LET rev    == series_direction(s) = -1
        shp    == shape(o)
        dates  == to_dict(s)
        dates1 == to_dict(o)
        summed == [k \in DOMAIN dates \cup DOMAIN dates1 |->
                      IF k \notin DOMAIN dates1 THEN dates[k]
                      ELSE IF k \in DOMAIN dates
                      THEN [v |-> RowSum(dates[k].v, dates1[k].v), dims |-> dates[k].dims]
                      ELSE IF Len(shp) = 1
                      THEN [v |-> dates1[k].v, dims |-> << >>]
                      ELSE [v |-> ZerosPlus(shp, dates1[k].v), dims |-> shp]]
        built  == from_items(s, summed, rev)
    IN  IF column_mismatch(s, o) THEN [raised |-> "ValueError", ret |-> << >>]
        ELSE IF match
        THEN IF Len(s.tseries) # Len(o.tseries) \/ ~if_dseries_match(s, o)
             THEN [raised |-> "ValueError", ret |-> << >>]
             ELSE [raised |-> "none",
                   ret |-> <<[s EXCEPT !.tseries =
                                 [i \in 1..Len(s.tseries) |->
                                     RowSum(s.tseries[i], o.tseries[i])]]>>]
        ELSE IF built.raised # "none" THEN [raised |-> built.raised, ret |-> << >>]
        ELSE [raised |-> "none", ret |-> <<built.ts>>]

\* replace(ts, match): what is returned and what is raised.
replace(s, o, match) ==
    LET rev        == series_direction(s) = -1
        self_dates == to_dict(s)
        ts_dates   == to_dict(o)
        keys       == IF match THEN DOMAIN self_dates
                      ELSE DOMAIN self_dates \cup DOMAIN ts_dates
        merged     == [k \in keys |->
                          IF k \in DOMAIN ts_dates THEN ts_dates[k] ELSE self_dates[k]]
        built      == from_items(s, merged, rev)
    IN  IF built.raised # "none" THEN [raised |-> built.raised, ret |-> << >>]
        ELSE [raised |-> "none", ret |-> <<built.ts>>]

\* tseries.reshape((-1, 1)) of a flat array: one column.
AsTable(s) == IF IsFlat(s) THEN [s EXCEPT !.dims = <<1>>] ELSE s

\* The pad branch of combine for one series t against the reference ref
\* (the first of the longest): pad rows are appended with ref's later dates.
PadTo(t, ref, pad) ==
    IF Len(ref.tseries) - Len(t.tseries) > 0
    THEN [t EXCEPT !.tseries = t.tseries \o
                       [i \in 1..(Len(ref.tseries) - Len(t.tseries)) |->
                           [c \in 1..t.dims[1] |-> pad]],
                   !.dseries = t.dseries \o
                       SubSeq(ref.dseries, Len(t.tseries) + 1, Len(ref.dseries))]
    ELSE t

\* combine(tss, discard, pad) with one incoming series o; pad is << >> for
\* None or <<value>>.  What is returned and what is raised.
combine(s, o, discard, pad) ==
    LET series_dir == series_direction(s)
        a      == AsTable(clone(s))
        b      == AsTable(clone(o))
        ref    == IF Len(a.tseries) >= Len(b.tseries) THEN a ELSE b
        length == Min(Len(a.tseries), Len(b.tseries))
        a2     == IF ~discard THEN (IF pad = << >> THEN a ELSE PadTo(a, ref, pad[1]))
                  ELSE trunc(a, 0, length)
        b2     == IF ~discard THEN (IF pad = << >> THEN b ELSE PadTo(b, ref, pad[1]))
                  ELSE trunc(b, 0, length)
        base   == [a2 EXCEPT !.tseries = [i \in 1..Len(a2.tseries) |->
                                              a2.tseries[i] \o b2.tseries[i]],
                             !.dims = <<a2.dims[1] + b2.dims[1]>>]
        sorted == sort_by_date(base, series_dir # 1, TRUE)
    IN  IF ~discard /\ pad = << >> /\ Len(s.tseries) # Len(b.tseries)
        THEN [raised |-> "ValueError", ret |-> << >>]
        ELSE IF Len(a2.tseries) # Len(b2.tseries)
        THEN [raised |-> "ValueError", ret |-> << >>]
        ELSE IF sorted.raised # "none" THEN [raised |-> sorted.raised, ret |-> << >>]
        ELSE [raised |-> "none", ret |-> <<sorted.ts>>]

\* common_length that cuts at the head and keeps the last rows.
common_length_from_tail(s1, s2) ==
    LET min_length == Min(Len(s1.tseries), Len(s2.tseries))
    IN  <<getitem(s1, Len(s1.tseries) - min_length, Len(s1.tseries)),
          getitem(s2, Len(s2.tseries) - min_length, Len(s2.tseries))>>

\* common_length(ts1, ts2): clones of both cut to the shorter length.
common_length(s1, s2) ==
    LET min_length == Min(Len(s1.tseries), Len(s2.tseries))
    IN  <<getitem(s1, 0, min_length), getitem(s2, 0, min_length)>>

\* a - b on two rows of the same shape.
RowDiff(a, b) == [i \in 1..Len(a) |-> a[i] - b[i]]

\* get_diffs that leaves the dates as they are.
get_diffs_all_dates(s) ==
    [s EXCEPT !.tseries = [i \in 1..(Len(s.tseries) - 1) |->
                              RowDiff(s.tseries[i], s.tseries[i + 1])]]

\* get_diffs(): the differences from date to date, one row fewer.
get_diffs(s) ==
    LET series_dir == series_direction(s)
        tmp   == IF series_dir = 1 THEN reverse(clone(s)) ELSE clone(s)
        n     == Len(tmp.tseries)
        diffs == [tmp EXCEPT !.tseries = [i \in 1..(n - 1) |->
                                             RowDiff(tmp.tseries[i], tmp.tseries[i + 1])],
                             !.dseries = SubSeq(tmp.dseries, 1, Len(tmp.dseries) - 1)]
    IN  IF series_dir = 1 THEN reverse(diffs) ELSE diffs

\* The elementwise functions handed to the value arrays.
Elementwise(func, a, b) ==
    [i \in 1..Len(a) |-> IF func \in {"__add__", "__iadd__"} THEN a[i] + b[i]
                         ELSE IF func \in {"__sub__", "__isub__"} THEN a[i] - b[i]
                         ELSE a[i] * b[i]]

\* _proc_func(new, func, other) with a series as other: the column check,
\* the cut to a common length and the function on the value arrays.  With
\* new = False the clone made by common_length is what the statement
\* "ts += other" binds to ts.
proc_func(s, func, o) ==
    IF column_mismatch(s, o) THEN [raised |-> "ValueError", ret |-> << >>]
    ELSE LET cut == common_length(s, o)
         IN  [raised |-> "none",
              ret |-> <<[cut[1] EXCEPT !.tseries =
                            [i \in 1..Len(cut[1].tseries) |->
                                Elementwise(func, cut[1].tseries[i], cut[2].tseries[i])]]>>]

(***************************************************************************)
(* Frequency conversion (freq_conversions.py)                              *)
(***************************************************************************)
\* The frequencies DATETIME_DICT has an indicator for ("sec" is commented out).
DATETIME_DICT == {"min", "h", "d", "w", "m", "q", "y"}

\* HIERARCHY.index(frequency), or -1 when the frequency is not in the tuple.
HierarchyIndex(frequency) ==
    IF \E i \in 1..Len(HIERARCHY) : HIERARCHY[i] = frequency
    THEN (CHOOSE i \in 1..Len(HIERARCHY) : HIERARCHY[i] = frequency) - 1
    ELSE -1

\* The indicator of a frequency reads an attribute only a datetime has.
NeedsTime(freq) == freq \in {"min", "h", "d"}

\* month % 3 == 0, as an int32.
q_test(date) == IF date.month % 3 = 0 THEN 1 ELSE 0

\* kwargs is << >> or <<weekday>>.
weekday_test(date, kwargs) ==
    IF Len(kwargs) > 0
    THEN IF weekday(date.ordinal) = kwargs[1] THEN 1 ELSE 0
    ELSE weekday(date.ordinal)

\* The indicator value of one date for a target frequency of DATETIME_DICT.
Indicator(date, freq, kwargs) ==
    IF freq = "min" THEN date.second
    ELSE IF freq = "h" THEN date.minute
    ELSE IF freq = "d" THEN date.hour
    ELSE IF freq = "w" THEN weekday_test(date, kwargs)
    ELSE IF freq = "m" THEN date.day
    ELSE IF freq = "q" THEN q_test(date)
    ELSE date.month

RECURSIVE RisesFrom(_, _)
\* np.argwhere(indicators[1:] - indicators[:-1] > 0) from position i on
\* (0-based, ascending).
RisesFrom(ind, i) ==
    IF i >= Len(ind) THEN << >>
    ELSE IF ind[i + 1] - ind[i] > 0 THEN <<i - 1>> \o RisesFrom(ind, i + 1)
    ELSE RisesFrom(ind, i + 1)

\* The positions where the indicator falls instead of rising.
Rises_negated(ind) == RisesFrom([i \in 1..Len(ind) |-> 0 - ind[i]], 1)

Rises(ind) == RisesFrom(ind, 1)

\* A selection of rows: the indices and whether the index array is 1-D
\* (argwhere gives a column, np.insert and np.append flatten it).
filter_dates(dates, freq, kwargs) ==
    IF freq \notin DATETIME_DICT THEN [raised |-> "KeyError", idx |-> << >>, flat |-> FALSE]
    ELSE IF NeedsTime(freq) /\ \E i \in 1..Len(dates) : ~dates[i].isdatetime
    THEN [raised |-> "AttributeError", idx |-> << >>, flat |-> FALSE]
    ELSE [raised |-> "none",
          idx |-> Rises([i \in 1..Len(dates) |-> Indicator(dates[i], freq, kwargs)]),
          flat |-> FALSE]

\* For timestamps: a function indicator (week, quarter) returns the array of
\* indicator values itself, computed with empty kwargs.
filter_idates(dates, freq, end_of_period) ==
    IF freq \notin DATETIME_DICT THEN [raised |-> "KeyError", idx |-> << >>, flat |-> FALSE]
    ELSE IF freq \in {"w", "q"}
    THEN [raised |-> "none",
          idx |-> [i \in 1..Len(dates) |-> Indicator(dates[i], freq, << >>)],
          flat |-> TRUE]
    ELSE LET selected == Rises([i \in 1..Len(dates) |-> Indicator(dates[i], freq, << >>)])
         IN  IF end_of_period THEN [raised |-> "none", idx |-> selected, flat |-> FALSE]
             ELSE IF Len(dates) = 0
             THEN [raised |-> "IndexError", idx |-> << >>, flat |-> FALSE]
             ELSE IF Indicator(dates[Len(dates)], freq, << >>) = 0
             THEN [raised |-> "none", idx |-> Append(selected, Len(dates) - 1), flat |-> TRUE]
             ELSE [raised |-> "none", idx |-> selected, flat |-> FALSE]

\* datetime_series raises when an ordinal is outside date.fromordinal's range.
MaxOrdinal == 3652059

BadOrdinal(s) ==
    /\ get_date_series_type(s.frequency) = "ordinal"
    /\ \E i \in 1..Len(s.dseries) : s.dseries[i] < 1 \/ s.dseries[i] > MaxOrdinal

\* The block without the insertion of the most recent row.
adjust_selected_no_insert(sel, n, end_of_period, include_partial, freq_idx, daily_idx) ==
    IF Len(sel.idx) = 0 \/ ~end_of_period THEN sel
    ELSE [sel EXCEPT !.idx = [i \in 1..Len(sel.idx) |-> sel.idx[i] + 1]]

\* The block "if selected.shape[0] > 0" of convert: the shift to the other
\* side of the boundary, the most recent row and the trailing row.
adjust_selected(sel, n, end_of_period, include_partial, freq_idx, daily_idx) ==
    IF Len(sel.idx) = 0 THEN sel
    ELSE LET shifted  == IF end_of_period
                         THEN [sel EXCEPT !.idx = [i \in 1..Len(sel.idx) |-> sel.idx[i] + 1]]
                         ELSE sel
             inserted == IF (include_partial \/ freq_idx > daily_idx) /\ shifted.idx[1] # 0
                         THEN [shifted EXCEPT !.idx = <<0>> \o shifted.idx, !.flat = TRUE]
                         ELSE shifted
         IN  IF freq_idx > daily_idx /\ inserted.idx[Len(inserted.idx)] # n - 1
             THEN [inserted EXCEPT !.idx = Append(inserted.idx, n - 1), !.flat = TRUE]
             ELSE inserted

\* The rows of new_ts at the selected indices, under the new frequency; for
\* a daily target the dates become the ordinals of the datetimes.
take_selected(new_ts, dates, sel, new_freq) ==
    [new_ts EXCEPT
        !.tseries = [k \in 1..Len(sel.idx) |-> new_ts.tseries[sel.idx[k] + 1]],
        !.frequency = new_freq,
        !.dseries = [k \in 1..Len(sel.idx) |->
                        IF new_freq = "d" THEN dates[sel.idx[k] + 1].ordinal
                        ELSE new_ts.dseries[sel.idx[k] + 1]],
        !.dtype = IF new_freq = "d" THEN "int32" ELSE new_ts.dtype]

\* The end of convert: the result is put back into the direction of ts.
restore_direction(series_dir, picked) ==
    IF series_dir # series_direction(picked) THEN reverse(picked) ELSE picked

\* convert from the indexing on: an index outside the array raises
\* IndexError, and for a daily target a column of indices hands arrays, not
\* datetimes, to toordinal.
index_selected(s, new_ts, dates, sel, new_freq) ==
    IF \E k \in 1..Len(sel.idx) : sel.idx[k] >= Len(new_ts.dseries)
    THEN [raised |-> "IndexError", ret |-> << >>]
    ELSE IF new_freq = "d" /\ ~sel.flat /\ Len(sel.idx) > 0
    THEN [raised |-> "AttributeError", ret |-> << >>]
    ELSE [raised |-> "none",
          ret |-> <<restore_direction(series_direction(s),
                                      take_selected(new_ts, dates, sel, new_freq))>>]

\* convert from the filter on; found is the filter's result.
select_rows(s, new_ts, dates, found, new_freq, include_partial) ==
    IF found.raised # "none" THEN [raised |-> found.raised, ret |-> << >>]
    ELSE index_selected(s, new_ts, dates,
                        adjust_selected(found, Len(new_ts.dseries), new_ts.end_of_period,
                                        include_partial, HierarchyIndex(s.frequency),
                                        HierarchyIndex("d")),
                        new_freq)

\* convert after the clone has been sorted newest first (new_ts).
convert_sorted(s, new_ts, dates, new_freq, include_partial, kwargs) ==
    IF HierarchyIndex(s.frequency) = -1 THEN [raised |-> "ValueError", ret |-> << >>]
    ELSE IF HierarchyIndex(s.frequency) > HierarchyIndex("q")
    THEN [raised |-> "ValueError", ret |-> << >>]
    ELSE IF BadOrdinal(new_ts) THEN [raised |-> "ValueError", ret |-> << >>]
    ELSE select_rows(s, new_ts, dates,
                     IF get_date_series_type(s.frequency) = "ordinal"
                     THEN filter_dates(dates, new_freq, kwargs)
                     ELSE filter_idates(dates, new_freq, s.end_of_period),
                     new_freq, include_partial)

\* datetime_series() of the sorted clone, then the rest of convert.
convert_dated(s, new_ts, new_freq, include_partial, kwargs) ==
    convert_sorted(s, new_ts, datetime_series(new_ts), new_freq, include_partial, kwargs)

\* freq_conversions.convert(ts, new_freq, include_partial, **kwargs): what is
\* returned and what is raised; ts itself is not changed.
fc_convert(s, new_freq, include_partial, kwargs) ==
    convert_dated(s, sort_by_date(clone(s), TRUE, FALSE).ts, new_freq, include_partial, kwargs)

\* Timeseries.convert(new_freq, include_partial, **kwargs).
convert(s, new_freq, include_partial, kwargs) ==
    IF new_freq \notin FREQ_IDAYTYPES \cup FREQ_DAYTYPES
    THEN [raised |-> "ValueError", ret |-> << >>]
    ELSE IF s.frequency = new_freq THEN [raised |-> "none", ret |-> <<s>>]
    ELSE fc_convert(s, new_freq, include_partial, kwargs)

(***************************************************************************)
(* The series the model starts from.                                       *)
(***************************************************************************)
\* Daily dates (ordinals): 2015-12-31 (a Thursday), 2016-01-01, 2016-01-04
\* and 2016-01-05.
DayDates == {735963, 735964, 735967, 735968}

\* Lookup and truncation targets: the dates, the gaps between them and both
\* sides outside.
DayTargets == {735962, 735963, 735965, 735967, 735968, 735969}

\* The rows of a series built from a list of dates: the value of row i is
\* made from its date and its position, so that a row is recognisable.
\* cols = 0 builds a flat series, cols > 0 a table with that many columns.
RowValue(date, i, base, cols) ==
    LET v == base + 5 * (date % 10) + i
    IN  IF cols = 0 THEN <<v>> ELSE [c \in 1..cols |-> v + 50 * (c - 1)]

Timeseries(frequency, dates, base, cols) ==
    [dseries |-> dates,
     tseries |-> [i \in 1..Len(dates) |-> RowValue(dates[i], i, base, cols)],
     dims |-> IF cols = 0 THEN << >> ELSE <<cols>>,
     dtype |-> IF get_date_series_type(frequency) = "ordinal" THEN "int32" ELSE "float64",
     frequency |-> frequency,
     end_of_period |-> TRUE]

\* Date lists of at most n dates of D that are monotonic: ascending or
\* descending, equal neighbours allowed, first and last different when
\* there is more than one date (series_direction then tells the direction).
Monotonic(D, n) ==
    UNION {{d \in [1..k -> D] :
               /\ k > 1 => d[1] # d[k]
               /\ \/ \A i \in 1..(k - 1) : d[i] <= d[i + 1]
                  \/ \A i \in 1..(k - 1) : d[i] >= d[i + 1]} : k \in 0..n}

NoSeries == Timeseries("d", << >>, 0, 0)

\* No array storage is tracked: the series are used by value.
NoHeap == [bufs |-> << >>]

NoOut == [raised |-> "none", ret |-> << >>, row |-> -1]

InitRowNo ==
    /\ ts \in {Timeseries("d", d, 0, 0) : d \in Monotonic(DayDates, MaxLen + 1)}
    /\ other = NoSeries
    /\ out = NoOut
    /\ op = [name |-> "init"]
    /\ old = [ts |-> ts, other |-> other]
    /\ steps = 1
    /\ heap = NoHeap

(***************************************************************************)
(* Operations                                                              *)
(***************************************************************************)
RowNo ==
    /\ steps > 0
    /\ IsArray(ts)
    /\ \E rowdate \in DayTargets, closest \in {-1, 0, 1, 2}, no_error \in BOOLEAN :
          LET r == row_no(ts, rowdate, closest, no_error)
          IN  /\ out' = [raised |-> r.raised, ret |-> << >>, row |-> r.row]
              /\ op' = [name |-> "row_no", rowdate |-> rowdate,
                        closest |-> closest, no_error |-> no_error]
    /\ old' = [ts |-> ts, other |-> other]
    /\ steps' = steps - 1
    /\ UNCHANGED heap
    /\ UNCHANGED <<ts, other>>

Truncdate ==
    /\ steps > 0
    /\ IsArray(ts)
    /\ \E start \in DayTargets \cup {0}, finish \in DayTargets \cup {0},
          pair \in BOOLEAN, new \in BOOLEAN :
          LET r == truncdate(ts, start, finish, new)
          IN  /\ ts' = r.self
              /\ out' = [raised |-> r.raised, ret |-> r.ret, row |-> -1]
              /\ op' = [name |-> "truncdate", start |-> start, finish |-> finish,
                        pair |-> pair, new |-> new]
    /\ old' = [ts |-> ts, other |-> other]
    /\ steps' = steps - 1
    /\ UNCHANGED heap
    /\ UNCHANGED other

NextRowNo == RowNo

SpecRowNo == InitRowNo /\ [][NextRowNo]_vars

NextTruncdate == Truncdate

SpecTruncdate == InitRowNo /\ [][NextTruncdate]_vars

(***************************************************************************)
(* Properties of the row locator                                           *)
(***************************************************************************)
\* The rows of s whose date lies in lo..hi, in the order s holds them.
KeepRows(s, lo, hi) ==
    LET idx == SelectSeq([i \in 1..Len(s.dseries) |-> i],
                         LAMBDA i : lo <= s.dseries[i] /\ s.dseries[i] <= hi)
    IN  [dseries |-> [k \in 1..Len(idx) |-> s.dseries[idx[k]]],
         tseries |-> [k \in 1..Len(idx) |-> s.tseries[idx[k]]]]

DatesOf(s) == Range(s.dseries)

\* The row at the 0-based index the locator returned is a row of the series.
IsRow(s, row) == row \in 0..(Len(s.dseries) - 1)

\* C3: on a monotonic series of either direction, row_no(d, closest=-1)
\* returns a row holding the greatest date <= d, row_no(d, closest=1) a row
\* holding the least date >= d and row_no(d, closest=0) a row whose date is
\* d, whenever such a row exists.
RowNoClosest ==
    (op.name = "row_no" /\ op.closest \in {-1, 0, 1}) =>
        LET d      == op.rowdate
            before == {x \in DatesOf(old.ts) : x <= d}
            after  == {x \in DatesOf(old.ts) : x >= d}
        IN  /\ (op.closest = -1 /\ before # {}) =>
                   /\ out.raised = "none"
                   /\ IsRow(old.ts, out.row)
                   /\ old.ts.dseries[out.row + 1] = SetMax(before)
            /\ (op.closest = 1 /\ after # {}) =>
                   /\ out.raised = "none"
                   /\ IsRow(old.ts, out.row)
                   /\ old.ts.dseries[out.row + 1] = SetMin(after)
            /\ (op.closest = 0 /\ d \in DatesOf(old.ts)) =>
                   /\ out.raised = "none"
                   /\ IsRow(old.ts, out.row)
                   /\ old.ts.dseries[out.row + 1] = d

\* A descending series of three rows is asked for the row at or before a date
\* that lies in a gap between its dates, and answers with a row.
RowNoClosestWitness ==
    /\ op.name = "row_no"
    /\ op.closest = -1
    /\ Len(ts.dseries) = 3
    /\ series_direction(ts) = -1
    /\ op.rowdate \notin DatesOf(ts)
    /\ \E x \in DatesOf(ts) : x < op.rowdate
    /\ \E x \in DatesOf(ts) : x > op.rowdate
    /\ out.raised = "none"
    /\ out.row = 1

\* C4: when no row satisfies the lookup predicate, row_no raises if no_error
\* is false and returns -1 without raising if no_error is true, in all
\* three modes, and the series is unchanged.
RowNoNoMatch ==
    (op.name = "row_no" /\ op.closest \in {-1, 0, 1}) =>
        LET d     == op.rowdate
            match == IF op.closest = 0 THEN {x \in DatesOf(old.ts) : x = d}
                     ELSE IF op.closest = -1 THEN {x \in DatesOf(old.ts) : x <= d}
                     ELSE {x \in DatesOf(old.ts) : x >= d}
        IN  match = {} =>
                /\ ts = old.ts
                /\ IF op.no_error THEN out.raised = "none" /\ out.row = -1
                   ELSE out.raised # "none"

(***************************************************************************)
(* Properties of truncdate                                                 *)
(***************************************************************************)
\* The series truncdate produced: the returned one with new, else the receiver.
TruncdateResult == IF op.new THEN out.ret[1] ELSE ts

\* Both bounds resolve in s: some date >= lo and some date <= hi.
Resolves(s, lo, hi) ==
    /\ \E x \in DatesOf(s) : x >= lo
    /\ \E x \in DatesOf(s) : x <= hi

TruncdateReorders ==
    (/\ op.name = "truncdate"
     /\ op.start # 0 /\ op.finish # 0
     /\ Resolves(old.ts, Min(op.start, op.finish), Max(op.start, op.finish))) =>
        /\ out.raised = "none"
        /\ TruncdateResult.dseries =
               KeepRows(old.ts, Min(op.start, op.finish), Max(op.start, op.finish)).dseries
        /\ TruncdateResult.tseries =
               KeepRows(old.ts, Min(op.start, op.finish), Max(op.start, op.finish)).tseries

(***************************************************************************)
(* add                                                                     *)
(***************************************************************************)
\* Date lists without a repeated date.
Distinct(S) == {d \in S : Cardinality(Range(d)) = Len(d)}

\* The series of one frequency over the dates D: flat ones and tables of two
\* columns (make_arrays builds an empty series flat).
SeriesOver(frequency, D, base) ==
    {Timeseries(frequency, d, base, 0) : d \in D}
        \cup {Timeseries(frequency, d, base, 2) : d \in D \ {<< >>}}

InitAdd ==
    /\ ts \in SeriesOver("d", Distinct(Monotonic(DayDates, MaxLen)), 0)
    /\ other \in SeriesOver("d", Distinct(Monotonic(DayDates, MaxLen)), 100)
    /\ out = NoOut
    /\ op = [name |-> "init"]
    /\ old = [ts |-> ts, other |-> other]
    /\ steps = 1
    /\ heap = NoHeap

Add ==
    /\ steps > 0
    /\ IsArray(ts) /\ IsArray(other)
    /\ \E match \in BOOLEAN :
          LET r == add(ts, other, match)
          IN  /\ out' = [raised |-> r.raised, ret |-> r.ret, row |-> -1]
              /\ op' = [name |-> "add", match |-> match]
    /\ old' = [ts |-> ts, other |-> other]
    /\ steps' = steps - 1
    /\ UNCHANGED heap
    /\ UNCHANGED <<ts, other>>

NextAdd == Add

SpecAdd == InitAdd /\ [][NextAdd]_vars

\* The value a series holds at a date, or a row of zeros of the given width.
ValueAt(s, date, width) ==
    IF date \in DatesOf(s)
    THEN s.tseries[CHOOSE i \in 1..Len(s.dseries) : s.dseries[i] = date]
    ELSE [c \in 1..width |-> 0]

\* C7: add(other, match=False) returns a series whose dates are the union of
\* both inputs' dates, whose value at each date is self's value (or zero)
\* plus other's value (or zero), for flat and for tabular series alike, a
\* tabular sum keeping the inputs' columns, ordered in self's direction.
AddUnion ==
    (/\ op.name = "add"
     /\ ~op.match
     /\ old.ts.dims = old.other.dims) =>
        /\ out.raised = "none"
        /\ Len(out.ret) = 1
        /\ LET r     == out.ret[1]
               width == IF IsFlat(old.ts) THEN 1 ELSE old.ts.dims[1]
           IN  /\ Len(r.tseries) > 0 => r.dims = old.ts.dims
               /\ DatesOf(r) = DatesOf(old.ts) \cup DatesOf(old.other)
               /\ Len(r.dseries) = Cardinality(DatesOf(r))
               /\ Len(r.tseries) = Len(r.dseries)
               /\ \A i \in 1..Len(r.dseries) :
                      r.tseries[i] = RowSum(ValueAt(old.ts, r.dseries[i], width),
                                            ValueAt(old.other, r.dseries[i], width))
               /\ \A i \in 1..(Len(r.dseries) - 1) :
                      IF series_direction(old.ts) = -1
                      THEN r.dseries[i] > r.dseries[i + 1]
                      ELSE r.dseries[i] < r.dseries[i + 1]

\* The same statement for flat series only.
AddUnionFlat == (IsFlat(old.ts) /\ IsFlat(old.other)) => AddUnion

\* C15: add(other, match=True) raises when the two series differ in length
\* or when their date sequences differ at any position; otherwise it returns
\* a series with the same date sequence whose value at every row is the sum
\* of the two inputs' values at that row.
AddMatch ==
    (op.name = "add" /\ op.match) =>
        IF Len(old.ts.tseries) # Len(old.other.tseries)
              \/ \E i \in 1..Len(old.ts.dseries) : old.ts.dseries[i] # old.other.dseries[i]
        THEN out.raised # "none" /\ out.ret = << >>
        ELSE old.ts.dims = old.other.dims =>
                /\ out.raised = "none"
                /\ Len(out.ret) = 1
                /\ out.ret[1].dseries = old.ts.dseries
                /\ out.ret[1].dims = old.ts.dims
                /\ Len(out.ret[1].tseries) = Len(old.ts.tseries)
                /\ \A i \in 1..Len(old.ts.tseries) :
                      out.ret[1].tseries[i] = RowSum(old.ts.tseries[i], old.other.tseries[i])

\* Two tables with the same two dates are added with match: the sum of
\* each row comes back under the same dates.
AddMatchWitness ==
    /\ op.name = "add"
    /\ op.match
    /\ out.raised = "none"
    /\ old.ts.dims = <<2>>
    /\ Len(old.ts.dseries) = 2
    /\ out.ret[1].dseries = old.other.dseries
    /\ out.ret[1].tseries[2] = RowSum(old.ts.tseries[2], old.other.tseries[2])

(***************************************************************************)
(* convert                                                                 *)
(***************************************************************************)
\* Wednesday 2015-12-30, Thursday 2015-12-31, Friday 2016-01-01, Monday
\* 2016-01-04 and Tuesday 2016-01-05: a week, a month, a quarter and a year
\* end between them.
ConvDates == {735962, 735963, 735964, 735967, 735968}

\* Monday 2016-01-04 23:00:00, Tuesday 2016-01-05 00:00:00 and 01:00:00 (UTC).
ConvStamps == {1451948400, 1451952000, 1451955600}

WithEndOfPeriod(s, e) == [s EXCEPT !.end_of_period = e]

InitConvert ==
    /\ ts \in {WithEndOfPeriod(Timeseries(f, d, 0, 0), e) :
                  f \in FREQ_DAYTYPES,
                  d \in Distinct(Monotonic(ConvDates, MaxLen + 1)),
                  e \in BOOLEAN}
              \cup
              {WithEndOfPeriod(Timeseries(f, d, 0, 0), e) :
                  f \in {"h", "sec"},
                  d \in Distinct(Monotonic(ConvStamps, MaxLen + 1)),
                  e \in BOOLEAN}
    /\ other = NoSeries
    /\ out = NoOut
    /\ op = [name |-> "init"]
    /\ old = [ts |-> ts, other |-> other]
    /\ steps = 1
    /\ heap = NoHeap

Convert ==
    /\ steps > 0
    /\ IsArray(ts)
    /\ \E new_freq \in FREQ_DAYTYPES \cup FREQ_IDAYTYPES \cup {"x"},
          include_partial \in BOOLEAN, kwargs \in {<< >>, <<0>>, <<7>>} :
          LET r == convert(ts, new_freq, include_partial, kwargs)
          IN  /\ out' = [raised |-> r.raised, ret |-> r.ret, row |-> -1]
              /\ op' = [name |-> "convert", new_freq |-> new_freq,
                        include_partial |-> include_partial, kwargs |-> kwargs]
    /\ old' = [ts |-> ts, other |-> other]
    /\ steps' = steps - 1
    /\ UNCHANGED heap
    /\ UNCHANGED <<ts, other>>

NextConvert == Convert

SpecConvert == InitConvert /\ [][NextConvert]_vars

\* new_freq is the frequency itself or a finer one of the hierarchy.
NotCoarser(frequency, new_freq) ==
    \/ new_freq = frequency
    \/ /\ HierarchyIndex(frequency) >= 0
       /\ HierarchyIndex(new_freq) >= 0
       /\ HierarchyIndex(new_freq) < HierarchyIndex(frequency)

\* C8: convert raises whenever new_freq is not strictly coarser than the
\* series' frequency: every reverse conversion and every lateral conversion
\* fails and no converted series is returned.
ConvertRejectsNotCoarser ==
    (/\ op.name = "convert"
     /\ op.new_freq \in FREQ_DAYTYPES \cup FREQ_IDAYTYPES
     /\ NotCoarser(old.ts.frequency, op.new_freq)) =>
        /\ out.raised # "none"
        /\ out.ret = << >>

\* The row of a non-empty series with the latest date, as <<date, values>>.
MostRecent(s) ==
    LET i == CHOOSE i \in 1..Len(s.dseries) :
                 \A j \in 1..Len(s.dseries) : s.dseries[j] <= s.dseries[i]
    IN  <<s.dseries[i], s.tseries[i]>>

\* A conversion of a non-empty daily series to week, month, quarter or year.
DailyToPeriod ==
    /\ op.name = "convert"
    /\ old.ts.frequency = "d"
    /\ op.new_freq \in {"w", "m", "q", "y"}
    /\ Len(old.ts.dseries) > 0

ConvertPartialNonEmpty ==
    (DailyToPeriod /\ op.include_partial) =>
        /\ out.raised = "none"
        /\ Len(out.ret) = 1
        /\ Len(out.ret[1].dseries) > 0
        /\ \E i \in 1..Len(out.ret[1].dseries) :
               <<out.ret[1].dseries[i], out.ret[1].tseries[i]>> = MostRecent(old.ts)

(***************************************************************************)
(* Sequences of operations on a pair of series                             *)
(***************************************************************************)
\* The dates of the receiver and of the incoming series: two daily dates
\* each with one in common, or seconds on both sides of 10^9 (2001-09-09
\* 01:46:40 UTC), where the timestamp gets one more digit.
SelfDates(frequency) ==
    IF frequency = "d" THEN {735963, 735964} ELSE {999999998, 999999999}

OtherDates(frequency) ==
    IF frequency = "d" THEN {735964, 735967} ELSE {999999999, 1000000000}

\* Bounds for truncdate on these series.
BoundsFor(s) ==
    IF s.dtype = "int32" THEN {0, 735964, 735966} ELSE {0, 999999999, 1000000001}

Init ==
    /\ \E f \in {"d", "sec"} :
          /\ ts \in SeriesOver(f, Distinct(Monotonic(SelfDates(f), MaxLen)), 0)
          /\ other \in SeriesOver(f, Distinct(Monotonic(OtherDates(f), MaxLen)), 100)
    /\ out = NoOut
    /\ op = [name |-> "init"]
    /\ old = [ts |-> ts, other |-> other]
    /\ steps = MaxSteps
    /\ heap = NoHeap

\* The operations below take array-backed series of rank 1 or 2.
Usable(s) == IsArray(s) /\ Len(s.dims) <= 1

\* One operation: the receiver afterwards, what was raised and returned.
Step(name, self, raised, ret) ==
    /\ steps > 0
    /\ ts' = self
    /\ out' = [raised |-> raised, ret |-> ret, row |-> -1]
    /\ op' = [name |-> name]
    /\ old' = [ts |-> ts, other |-> other]
    /\ steps' = steps - 1
    /\ UNCHANGED heap
    /\ UNCHANGED other

SortByDate ==
    /\ steps > 0
    /\ Usable(ts)
    /\ \E rev \in BOOLEAN, force \in BOOLEAN :
          LET r == sort_by_date(ts, rev, force)
          IN  Step("sort_by_date", r.ts, r.raised, << >>)

Reverse ==
    /\ steps > 0
    /\ Usable(ts)
    /\ Step("reverse", reverse(ts), "none", << >>)

Trunc ==
    /\ steps > 0
    /\ Usable(ts)
    /\ \E start \in 0..MaxLen, finish \in 0..MaxLen, new \in BOOLEAN :
          IF new THEN Step("trunc", ts, "none", <<trunc(clone(ts), start, finish)>>)
          ELSE Step("trunc", trunc(ts, start, finish), "none", << >>)

TruncdateAny ==
    /\ steps > 0
    /\ Usable(ts)
    /\ \E start \in BoundsFor(ts), finish \in BoundsFor(ts), new \in BOOLEAN :
          LET r == truncdate(ts, start, finish, new)
          IN  Step("truncdate", r.self, r.raised, r.ret)

Extend ==
    /\ steps > 0
    /\ Usable(ts) /\ Usable(other)
    /\ \E overlay \in BOOLEAN :
          LET r == extend(ts, other, overlay)
          IN  Step("extend", r.ts, r.raised, << >>)

AddAny ==
    /\ steps > 0
    /\ Usable(ts) /\ Usable(other)
    /\ \E match \in BOOLEAN :
          LET r == add(ts, other, match)
          IN  Step("add", ts, r.raised, r.ret)

Replace ==
    /\ steps > 0
    /\ Usable(ts) /\ Usable(other)
    /\ \E match \in BOOLEAN :
          LET r == replace(ts, other, match)
          IN  Step("replace", ts, r.raised, r.ret)

Combine ==
    /\ steps > 0
    /\ Usable(ts) /\ Usable(other)
    /\ \E discard \in BOOLEAN, pad \in {<< >>, <<0>>} :
          LET r == combine(ts, other, discard, pad)
          IN  Step("combine", ts, r.raised, r.ret)

CommonLength ==
    /\ steps > 0
    /\ Usable(ts) /\ Usable(other)
    /\ Step("common_length", ts, "none", common_length(ts, other))

GetDiffs ==
    /\ steps > 0
    /\ Usable(ts)
    /\ Step("get_diffs", ts, "none", <<get_diffs(ts)>>)

ConvertAny ==
    /\ steps > 0
    /\ Usable(ts)
    /\ \E new_freq \in FREQ_DAYTYPES \cup FREQ_IDAYTYPES, include_partial \in BOOLEAN :
          LET r == convert(ts, new_freq, include_partial, << >>)
          IN  Step("convert", ts, r.raised, r.ret)

GetItem ==
    /\ steps > 0
    /\ Usable(ts)
    /\ \E a \in 0..MaxLen, b \in 0..MaxLen :
          Step("getitem", ts, "none", <<getitem(ts, a, b)>>)

\* ts + other, ts - other, ts * other, and ts += other, ts -= other,
\* ts *= other, which bind ts to what the function returns.
Arith ==
    /\ steps > 0
    /\ Usable(ts) /\ Usable(other)
    /\ \E func \in {"__add__", "__sub__", "__mul__", "__iadd__", "__isub__", "__imul__"} :
          LET r == proc_func(ts, func, other)
          IN  IF func \in {"__iadd__", "__isub__", "__imul__"} /\ r.raised = "none"
              THEN Step(func, r.ret[1], r.raised, r.ret)
              ELSE Step(func, ts, r.raised, r.ret)

\* ts = <a returned series>: the next operation is applied to a result.
Rebind ==
    /\ steps > 0
    /\ \E i \in 1..Len(out.ret) :
          /\ Usable(out.ret[i])
          /\ out.ret[i] # ts
          /\ ts' = out.ret[i]
    /\ UNCHANGED <<other, out, op, old, steps, heap>>

Next ==
    \/ SortByDate \/ Reverse \/ Trunc \/ TruncdateAny \/ Extend \/ AddAny
    \/ Replace \/ Combine \/ CommonLength \/ GetDiffs \/ ConvertAny \/ GetItem
    \/ Arith \/ Rebind

Spec == Init /\ [][Next]_vars

\* A series holds as many dates as rows of values.
SameLength(s) == Len(s.dseries) = Len(s.tseries)

IsMonotonic(d) ==
    \/ \A i \in 1..(Len(d) - 1) : d[i] <= d[i + 1]
    \/ \A i \in 1..(Len(d) - 1) : d[i] >= d[i + 1]

\* C2: starting from series with monotonic dates, after any sequence of the
\* operations the dates of every mutated or returned series are still
\* monotonic, never unordered.
DatesStayMonotonic ==
    /\ IsArray(ts) => IsMonotonic(ts.dseries)
    /\ \A i \in 1..Len(out.ret) : IsMonotonic(out.ret[i].dseries)

\* C12: convert called with an unrecognized target frequency, or with a
\* weekday argument outside 0..6, raises an error and returns no series.
ConvertRejectsBadArguments ==
    (/\ op.name = "convert"
     /\ \/ op.new_freq \notin FREQ_DAYTYPES \cup FREQ_IDAYTYPES
        \/ Len(op.kwargs) > 0 /\ op.kwargs[1] \notin 0..6) =>
        /\ out.raised # "none"
        /\ out.ret = << >>

(***************************************************************************)
(* Daily series with a row on every weekday, converted to monthly          *)
(***************************************************************************)
RECURSIVE WeekdaysFrom(_, _)
\* The ordinals from a to b with Saturdays and Sundays skipped, ascending.
WeekdaysFrom(a, b) ==
    IF a > b THEN << >>
    ELSE (IF weekday(a) < 5 THEN <<a>> ELSE << >>) \o WeekdaysFrom(a + 1, b)

\* Monday 2015-12-28 to Thursday 2016-01-07: where a series starts.
SpanStarts == 735960..735970

\* Friday 2016-03-04: the latest end of a series.
SpanEnd == 736027

InitWeekdays ==
    /\ \E a \in SpanStarts, b \in SpanStarts \cup {735992, 735995, 736023, 736024, SpanEnd},
          e \in BOOLEAN, rev \in BOOLEAN :
          LET d == WeekdaysFrom(a, b)
          IN  ts = WithEndOfPeriod(Timeseries("d", IF rev THEN Rev(d) ELSE d, 0, 0), e)
    /\ other = NoSeries
    /\ out = NoOut
    /\ op = [name |-> "init"]
    /\ old = [ts |-> ts, other |-> other]
    /\ steps = 1
    /\ heap = NoHeap

SpecWeekdays == InitWeekdays /\ [][NextConvert]_vars

\* The series has a row on every weekday between its first and last date.
EveryWeekday(d) ==
    Len(d) > 0 /\
    \A n \in SetMin(Range(d))..SetMax(Range(d)) : weekday(n) < 5 => n \in Range(d)

\* The calendar month of an ordinal, counted from year 0.
MonthOf(n) == 12 * fromordinal(n).year + fromordinal(n).month

\* The row of s dated d with values v is the last (end_of_period) or the
\* first row that s has in d's calendar month.
MonthEdgeRow(s, d, v) ==
    /\ \E j \in 1..Len(s.dseries) : s.dseries[j] = d /\ s.tseries[j] = v
    /\ \A k \in 1..Len(s.dseries) :
          MonthOf(s.dseries[k]) = MonthOf(d) =>
              IF s.end_of_period THEN s.dseries[k] <= d ELSE s.dseries[k] >= d

\* C11: converting a daily series with a row on every weekday to monthly
\* with include_partial returns a series in which every row other than the
\* most recent one is the last row of its calendar month when end_of_period
\* is true and the first row of its calendar month when it is false, dates
\* and values taken from that row.
MonthlyRowsAtMonthEdges ==
    (/\ op.name = "convert"
     /\ old.ts.frequency = "d"
     /\ op.new_freq = "m"
     /\ op.include_partial
     /\ EveryWeekday(old.ts.dseries)) =>
        /\ out.raised = "none"
        /\ Len(out.ret) = 1
        /\ \A i \in 1..Len(out.ret[1].dseries) :
              out.ret[1].dseries[i] # SetMax(Range(out.ret[1].dseries)) =>
                  MonthEdgeRow(old.ts, out.ret[1].dseries[i], out.ret[1].tseries[i])

\* 2015-12-31 to 2016-03-04 with end_of_period: the month ends 2015-12-31,
\* 2016-01-29 and 2016-02-29 and the most recent row 2016-03-04 come out.
MonthlyRowsWitness ==
    /\ op.name = "convert"
    /\ op.new_freq = "m"
    /\ op.include_partial
    /\ old.ts.end_of_period
    /\ old.ts.dseries = WeekdaysFrom(735963, SpanEnd)
    /\ out.raised = "none"
    /\ out.ret[1].dseries = <<735963, 735992, 736023, 736027>>

(***************************************************************************)
(* extend                                                                  *)
(***************************************************************************)
\* The dates both series draw from: the daily dates, or seconds on both
\* sides of 10^9.
MergeDates(frequency) ==
    IF frequency = "d" THEN DayDates ELSE {999999998, 999999999, 1000000000}

InitMerge ==
    /\ \E f \in {"d", "sec"} :
          /\ ts \in SeriesOver(f, Distinct(Monotonic(MergeDates(f), MaxLen)), 0)
          /\ other \in SeriesOver(f, Distinct(Monotonic(MergeDates(f), MaxLen)), 100)
    /\ out = NoOut
    /\ op = [name |-> "init"]
    /\ old = [ts |-> ts, other |-> other]
    /\ steps = 1
    /\ heap = NoHeap

ExtendOp ==
    /\ steps > 0
    /\ IsArray(ts) /\ IsArray(other)
    /\ \E overlay \in BOOLEAN :
          LET r == extend(ts, other, overlay)
          IN  /\ ts' = r.ts
              /\ out' = [raised |-> r.raised, ret |-> << >>, row |-> -1]
              /\ op' = [name |-> "extend", overlay |-> overlay]
    /\ old' = [ts |-> ts, other |-> other]
    /\ steps' = steps - 1
    /\ UNCHANGED heap
    /\ UNCHANGED other

NextExtend == ExtendOp

SpecExtend == InitMerge /\ [][NextExtend]_vars

\* Both series have the same columns, or one of them has no rows.
SameColumns(a, b) == Len(a.tseries) = 0 \/ Len(b.tseries) = 0 \/ a.dims = b.dims

\* r holds exactly the dates of a and b, once each, with b's values where b
\* has the date and a's values elsewhere.
IsOverlay(r, a, b) ==
    /\ DatesOf(r) = DatesOf(a) \cup DatesOf(b)
    /\ Len(r.dseries) = Cardinality(DatesOf(r))
    /\ Len(r.tseries) = Len(r.dseries)
    /\ \A i \in 1..Len(r.dseries) :
          r.tseries[i] = IF r.dseries[i] \in DatesOf(b)
                         THEN ValueAt(b, r.dseries[i], 1)
                         ELSE ValueAt(a, r.dseries[i], 1)

\* The rows of r are ordered by date in the direction of a: descending if a
\* is descending, otherwise ascending.
InDirectionOf(r, a) ==
    \A i \in 1..(Len(r.dseries) - 1) :
        IF series_direction(a) = -1
        THEN r.dseries[i] > r.dseries[i + 1]
        ELSE r.dseries[i] < r.dseries[i + 1]

\* C13: extend(other, overlay=True) leaves self holding exactly the union of
\* both date sets, other's value at each date of other and self's value at
\* the dates only self has, ordered by date in self's original direction.
ExtendOverlayUnion ==
    (op.name = "extend" /\ op.overlay /\ SameColumns(old.ts, old.other)) =>
        /\ out.raised = "none"
        /\ IsOverlay(ts, old.ts, old.other)
        /\ InDirectionOf(ts, old.ts)

\* The same statement for daily series only.
ExtendOverlayUnionDaily == old.ts.frequency = "d" => ExtendOverlayUnion

\* C14: extend(other, overlay=False) raises whenever some date occurs in both
\* series and then leaves self's dates and values as they were; when the
\* date sets are disjoint it succeeds and self holds their union.
ExtendNoOverlay ==
    (op.name = "extend" /\ ~op.overlay /\ SameColumns(old.ts, old.other)) =>
        IF DatesOf(old.ts) \cap DatesOf(old.other) # {}
        THEN out.raised # "none" /\ ts = old.ts
        ELSE out.raised = "none" /\ IsOverlay(ts, old.ts, old.other)

\* A receiver of two rows is extended without overlay by a series that
\* shares a date with it: the call raises and the receiver is untouched.
ExtendNoOverlayWitness ==
    /\ op.name = "extend"
    /\ ~op.overlay
    /\ Len(old.ts.dseries) = 2
    /\ Len(old.other.dseries) = 2
    /\ Cardinality(DatesOf(old.ts) \cap DatesOf(old.other)) = 1
    /\ out.raised = "ValueError"
    /\ ts = old.ts

(***************************************************************************)
(* replace                                                                 *)
(***************************************************************************)
ReplaceOp ==
    /\ steps > 0
    /\ IsArray(ts) /\ IsArray(other)
    /\ \E match \in BOOLEAN :
          LET r == replace(ts, other, match)
          IN  /\ out' = [raised |-> r.raised, ret |-> r.ret, row |-> -1]
              /\ op' = [name |-> "replace", match |-> match]
    /\ old' = [ts |-> ts, other |-> other]
    /\ steps' = steps - 1
    /\ UNCHANGED heap
    /\ UNCHANGED <<ts, other>>

NextReplace == ReplaceOp

SpecReplace == InitMerge /\ [][NextReplace]_vars

\* r holds exactly the dates of a, once each, with b's values where b has
\* the date and a's values elsewhere.
IsOverwrite(r, a, b) ==
    /\ DatesOf(r) = DatesOf(a)
    /\ Len(r.dseries) = Cardinality(DatesOf(r))
    /\ Len(r.tseries) = Len(r.dseries)
    /\ \A i \in 1..Len(r.dseries) :
          r.tseries[i] = IF r.dseries[i] \in DatesOf(b)
                         THEN ValueAt(b, r.dseries[i], 1)
                         ELSE ValueAt(a, r.dseries[i], 1)

\* C16: replace(other, match=True) returns a series with exactly self's date
\* set, other's value at every date other also has and self's value
\* elsewhere; replace(other, match=False) returns the union of both date
\* sets with other's value wherever other has the date; in both cases the
\* rows are ordered in self's original direction.
ReplaceOverwrites ==
    (op.name = "replace" /\ SameColumns(old.ts, old.other)) =>
        /\ out.raised = "none"
        /\ Len(out.ret) = 1
        /\ IF op.match
           THEN IsOverwrite(out.ret[1], old.ts, old.other)
           ELSE IsOverlay(out.ret[1], old.ts, old.other)
        /\ InDirectionOf(out.ret[1], old.ts)

\* The same statement for daily series only.
ReplaceOverwritesDaily == old.ts.frequency = "d" => ReplaceOverwrites

(***************************************************************************)
(* combine                                                                 *)
(***************************************************************************)
CombineOp ==
    /\ steps > 0
    /\ IsArray(ts) /\ IsArray(other)
    /\ \E discard \in BOOLEAN, pad \in {<< >>, <<0>>, <<7>>} :
          LET r == combine(ts, other, discard, pad)
          IN  /\ out' = [raised |-> r.raised, ret |-> r.ret, row |-> -1]
              /\ op' = [name |-> "combine", discard |-> discard, pad |-> pad]
    /\ old' = [ts |-> ts, other |-> other]
    /\ steps' = steps - 1
    /\ UNCHANGED heap
    /\ UNCHANGED <<ts, other>>

NextCombine == CombineOp

SpecCombine == InitMerge /\ [][NextCombine]_vars

\* The number of columns of a series, a flat one counting as one column.
Columns(s) == IF IsFlat(s) THEN 1 ELSE s.dims[1]

\* C17: self.combine(others, discard=True) returns a series whose row count
\* is the minimum row count among self and the others, also when that
\* minimum is 0, and whose column count is the sum of the inputs' column
\* counts, row i holding row i of each input side by side.
CombineDiscard ==
    (op.name = "combine" /\ op.discard) =>
        /\ out.raised = "none"
        /\ Len(out.ret) = 1
        /\ Len(out.ret[1].tseries) = Min(Len(old.ts.tseries), Len(old.other.tseries))
        /\ out.ret[1].dims = <<Columns(old.ts) + Columns(old.other)>>
        /\ \A i \in 1..Len(out.ret[1].tseries) :
              out.ret[1].tseries[i] = old.ts.tseries[i] \o old.other.tseries[i]

\* The same statement for daily series that both have rows.
CombineDiscardDailyRows ==
    (old.ts.frequency = "d" /\ Len(old.ts.tseries) > 0 /\ Len(old.other.tseries) > 0)
        => CombineDiscard

\* C18: self.combine(others, discard=False, pad=p) returns a series whose
\* row count is the maximum row count among self and the others, whatever
\* the dates and directions of the inputs relative to each other; the
\* columns of a shorter input hold exactly p in the rows beyond its own
\* length, and the dates of those rows are taken from the longest input.
CombinePad ==
    (op.name = "combine" /\ ~op.discard /\ op.pad # << >>) =>
        /\ out.raised = "none"
        /\ Len(out.ret) = 1
        /\ Len(out.ret[1].tseries) = Max(Len(old.ts.tseries), Len(old.other.tseries))
        /\ Len(out.ret[1].dseries) = Len(out.ret[1].tseries)
        /\ \A i \in 1..Len(out.ret[1].tseries) :
              /\ i > Len(old.ts.tseries) =>
                    /\ SubSeq(out.ret[1].tseries[i], 1, Columns(old.ts))
                           = [c \in 1..Columns(old.ts) |-> op.pad[1]]
                    /\ out.ret[1].dseries[i] \in DatesOf(old.other)
              /\ i > Len(old.other.tseries) =>
                    /\ SubSeq(out.ret[1].tseries[i], Columns(old.ts) + 1,
                              Columns(old.ts) + Columns(old.other))
                           = [c \in 1..Columns(old.other) |-> op.pad[1]]
                    /\ out.ret[1].dseries[i] \in DatesOf(old.ts)

\* The same statement for daily series when self is not the shorter one.
CombinePadDailySelfLongest ==
    (old.ts.frequency = "d" /\ Len(old.ts.tseries) >= Len(old.other.tseries))
        => CombinePad

(***************************************************************************)
(* The column check of the binary operations                               *)
(***************************************************************************)
\* Daily series that are flat or tables of two or three columns.
InitColumns ==
    /\ ts \in {Timeseries("d", d, 0, c) :
                  d \in Distinct(Monotonic(DayDates, MaxLen)) \ {<< >>}, c \in {0, 2, 3}}
    /\ other \in {Timeseries("d", d, 100, c) :
                     d \in Distinct(Monotonic(DayDates, MaxLen)) \ {<< >>}, c \in {0, 2, 3}}
    /\ out = NoOut
    /\ op = [name |-> "init"]
    /\ old = [ts |-> ts, other |-> other]
    /\ steps = 1
    /\ heap = NoHeap

NextBinary == ExtendOp \/ Add \/ ReplaceOp \/ Arith

SpecBinary == InitColumns /\ [][NextBinary]_vars

\* One operand is flat and the other a table, or both are tables with
\* different column counts.
ColumnsDiffer(a, b) ==
    \/ IsFlat(a) /\ ~IsFlat(b)
    \/ ~IsFlat(a) /\ IsFlat(b)
    \/ ~IsFlat(a) /\ ~IsFlat(b) /\ a.dims # b.dims

\* C19: every binary operation between two series (extend, add, replace and
\* the operators) raises an error whenever one operand is flat and the other
\* tabular or both are tabular with different column counts.
ColumnMismatchRaises ==
    (op.name # "init" /\ ColumnsDiffer(old.ts, old.other)) => out.raised # "none"

\* The same statement for add and the operators only.
ColumnMismatchRaisesChecked ==
    op.name \notin {"extend", "replace"} => ColumnMismatchRaises

(***************************************************************************)
(* trunc                                                                   *)
(***************************************************************************)
InitTrunc ==
    /\ ts \in SeriesOver("d", Monotonic(DayDates, MaxLen + 1), 0)
    /\ other = NoSeries
    /\ out = NoOut
    /\ op = [name |-> "init"]
    /\ old = [ts |-> ts, other |-> other]
    /\ steps = 1
    /\ heap = NoHeap

\* trunc(start, finish, new) with row numbers; 0 also stands for an omitted
\* argument.
TruncOp ==
    /\ steps > 0
    /\ IsArray(ts)
    /\ \E start \in 0..(MaxLen + 2), finish \in 0..(MaxLen + 2), new \in BOOLEAN :
          /\ ts' = IF new THEN ts ELSE trunc(ts, start, finish)
          /\ out' = [raised |-> "none",
                     ret |-> IF new THEN <<trunc(clone(ts), start, finish)>> ELSE << >>,
                     row |-> -1]
          /\ op' = [name |-> "trunc", start |-> start, finish |-> finish, new |-> new]
    /\ old' = [ts |-> ts, other |-> other]
    /\ steps' = steps - 1
    /\ UNCHANGED heap
    /\ UNCHANGED other

NextTrunc == TruncOp

SpecTrunc == InitTrunc /\ [][NextTrunc]_vars

\* C20: for all row indices 0 <= start <= finish <= N, trunc(start, finish)
\* keeps exactly rows start..finish-1 of both dates and values, in their
\* original order and pairing; with new=False the receiver itself is
\* truncated, with new=True the truncated series is returned as a separate
\* series.
TruncHalfOpen ==
    (/\ op.name = "trunc"
     /\ op.start <= op.finish
     /\ op.finish <= Len(old.ts.dseries)) =>
        /\ op.new => Len(out.ret) = 1 /\ ts = old.ts
        /\ ~op.new => out.ret = << >>
        /\ LET r == IF op.new THEN out.ret[1] ELSE ts
           IN  /\ r.dseries = SubSeq(old.ts.dseries, op.start + 1, op.finish)
               /\ r.tseries = SubSeq(old.ts.tseries, op.start + 1, op.finish)

\* The same statement for finish > 0.
TruncHalfOpenPositive == op.name = "trunc" /\ op.finish > 0 => TruncHalfOpen

(***************************************************************************)
(* common_length                                                           *)
(***************************************************************************)
CommonLengthOp ==
    /\ steps > 0
    /\ IsArray(ts) /\ IsArray(other)
    /\ out' = [raised |-> "none", ret |-> common_length(ts, other), row |-> -1]
    /\ op' = [name |-> "common_length"]
    /\ old' = [ts |-> ts, other |-> other]
    /\ steps' = steps - 1
    /\ UNCHANGED heap
    /\ UNCHANGED <<ts, other>>

NextCommonLength == CommonLengthOp

SpecCommonLength == InitMerge /\ [][NextCommonLength]_vars

\* r is s cut to its first m rows, dates and values.
IsHead(r, s, m) ==
    /\ r.dseries = SubSeq(s.dseries, 1, m)
    /\ r.tseries = SubSeq(s.tseries, 1, m)

\* C21: common_length(s1, s2) returns as many series as it was given, all
\* with the minimum row count m of the inputs, the i-th being the first m
\* rows of s_i in storage order: rows are dropped from the tail only.
CommonLengthTrimsTail ==
    op.name = "common_length" =>
        /\ Len(out.ret) = 2
        /\ IsHead(out.ret[1], old.ts, Min(Len(old.ts.tseries), Len(old.other.tseries)))
        /\ IsHead(out.ret[2], old.other, Min(Len(old.ts.tseries), Len(old.other.tseries)))

\* A series of two rows and one of one row: both come back with one row,
\* the first of each.
CommonLengthWitness ==
    /\ op.name = "common_length"
    /\ Len(old.ts.dseries) = 2
    /\ Len(old.other.dseries) = 1
    /\ Len(out.ret) = 2
    /\ out.ret[1].dseries = <<old.ts.dseries[1]>>
    /\ out.ret[1].tseries = <<old.ts.tseries[1]>>
    /\ out.ret[2] = old.other

(***************************************************************************)
(* series_direction and reverse                                            *)
(***************************************************************************)
\* Date lists of at most n dates of D in any order, repeats included.
AnyOrder(D, n) == UNION {[1..k -> D] : k \in 0..n}

InitReverse ==
    /\ ts \in SeriesOver("d", AnyOrder(DayDates, MaxLen + 1), 0)
    /\ other = NoSeries
    /\ out = NoOut
    /\ op = [name |-> "init"]
    /\ old = [ts |-> ts, other |-> other]
    /\ steps = 2
    /\ heap = NoHeap

\* reverse(); op counts the calls in a row and keeps the series the first
\* of them started from.
ReverseOp ==
    /\ steps > 0
    /\ IsArray(ts)
    /\ ts' = reverse(ts)
    /\ out' = NoOut
    /\ op' = [name |-> "reverse",
              times |-> IF op.name = "reverse" THEN op.times + 1 ELSE 1,
              origin |-> IF op.name = "reverse" THEN op.origin ELSE ts]
    /\ old' = [ts |-> ts, other |-> other]
    /\ steps' = steps - 1
    /\ UNCHANGED heap
    /\ UNCHANGED other

NextReverse == ReverseOp

SpecReverse == InitReverse /\ [][NextReverse]_vars

\* +1 when the first date is earlier than the last, -1 when it is later, 0
\* for a series of one or no row.
DirectionAsStated(s, dir) ==
    /\ dir \in {-1, 0, 1}
    /\ Len(s.dseries) <= 1 => dir = 0
    /\ Len(s.dseries) > 1 /\ s.dseries[1] < s.dseries[Len(s.dseries)] => dir = 1
    /\ Len(s.dseries) > 1 /\ s.dseries[1] > s.dseries[Len(s.dseries)] => dir = -1

\* C22: for any series series_direction() is -1, 0 or +1 (+1 when the first
\* date is earlier than the last, -1 when later, 0 for one or no row);
\* reverse() reverses dates and values together and negates the direction,
\* and reverse() twice restores the original row order and direction.
ReverseNegatesDirection ==
    /\ DirectionAsStated(ts, series_direction(ts))
    /\ op.name = "reverse" =>
          /\ ts.dseries = Rev(old.ts.dseries)
          /\ ts.tseries = Rev(old.ts.tseries)
          /\ series_direction(ts) = 0 - series_direction(old.ts)
          /\ op.times = 2 => ts = op.origin

\* The same statement for series whose first and last date differ.
ReverseNegatesDirectionEndsDiffer ==
    (Len(ts.dseries) > 1 => ts.dseries[1] # ts.dseries[Len(ts.dseries)])
        => ReverseNegatesDirection

(***************************************************************************)
(* clone and array storage.  The fields dseries and tseries of an object   *)
(* name numpy arrays; an array is a view on a buffer, and a basic slice    *)
(* ([::-1], flipud, [a:b]) is a new view on the same buffer.  heap.bufs is *)
(* the list of buffers, heap.s the original object and heap.c the object   *)
(* returned by clone; ts and other are the series read through them.       *)
(***************************************************************************)
\* The rows a view shows: row k is element idx[k] of its buffer.
View(bufs, v) == [k \in 1..Len(v.idx) |-> bufs[v.buf][v.idx[k]]]

\* The series an object holds, read through its two arrays.
Deref(bufs, o) ==
    [dseries |-> View(bufs, o.dv),
     tseries |-> View(bufs, o.tv),
     dims |-> o.dims,
     dtype |-> o.dtype,
     frequency |-> o.frequency,
     end_of_period |-> o.end_of_period]

\* An object whose two arrays own new buffers holding the series s
\* (np.array(...), np.append, make_arrays, ndarray.__deepcopy__).
Allocate(bufs, s) ==
    [bufs |-> bufs \o <<s.dseries, s.tseries>>,
     obj  |-> [dv |-> [buf |-> Len(bufs) + 1,
                       idx |-> [k \in 1..Len(s.dseries) |-> k]],
               tv |-> [buf |-> Len(bufs) + 2,
                       idx |-> [k \in 1..Len(s.tseries) |-> k]],
               dims |-> s.dims,
               dtype |-> s.dtype,
               frequency |-> s.frequency,
               end_of_period |-> s.end_of_period]]

\* copy.copy in place of deepcopy: the copy's fields name the same arrays.
deepcopy_shallow(bufs, o) == [bufs |-> bufs, obj |-> o]

\* clone: deepcopy(self) copies the contents of both arrays.
deepcopy(bufs, o) == Allocate(bufs, Deref(bufs, o))

\* The series with row k's values replaced by k, to follow rows through slices.
Positions(s) == [s EXCEPT !.tseries = [k \in 1..Len(s.tseries) |-> <<k>>]]

\* The object after its fields are rebound to slices of their own arrays:
\* r is the result of the slicing operation applied to Positions.
Reslice(o, r) ==
    [o EXCEPT !.dv.idx = [k \in 1..Len(r.tseries) |-> o.dv.idx[r.tseries[k][1]]],
              !.tv.idx = [k \in 1..Len(r.tseries) |-> o.tv.idx[r.tseries[k][1]]]]

\* The buffers after the rows the view tv shows are overwritten by vals.
WriteRows(bufs, tv, vals) ==
    [bufs EXCEPT ![tv.buf] =
        [i \in 1..Len(@) |->
            IF \E k \in 1..Len(tv.idx) : tv.idx[k] = i
            THEN vals[CHOOSE k \in 1..Len(tv.idx) : tv.idx[k] = i]
            ELSE @[i]]]

InitClone ==
    /\ ts \in SeriesOver("d", Monotonic(DayDates, MaxLen), 0)
    /\ other = NoSeries
    /\ out = NoOut
    /\ op = [name |-> "init"]
    /\ old = [ts |-> ts, other |-> other]
    /\ steps = 3
    /\ LET a == Allocate(<< >>, ts)
       IN  heap = [bufs |-> a.bufs, s |-> a.obj, c |-> a.obj]

\* The state after an operation on object x ("s" or "c") left the buffers
\* bufs and the object obj.
Commit(name, x, bufs, obj) ==
    LET s2 == IF x = "s" THEN obj ELSE heap.s
        c2 == IF x = "c" THEN obj ELSE heap.c
    IN  /\ heap' = [bufs |-> bufs, s |-> s2, c |-> c2]
        /\ ts' = Deref(bufs, s2)
        /\ other' = Deref(bufs, c2)
        /\ out' = NoOut
        /\ op' = [name |-> name, on |-> x]
        /\ old' = [ts |-> ts, other |-> other]
        /\ steps' = steps - 1

\* c = s.clone()
CloneOp ==
    /\ steps > 0
    /\ op.name = "init"
    /\ LET r == deepcopy(heap.bufs, heap.s)
       IN  Commit("clone", "c", r.bufs, r.obj)

Cloned == steps > 0 /\ op.name # "init"

\* x.tseries[k] = v
SetValueOn ==
    /\ Cloned
    /\ \E x \in {"s", "c"} :
          \E k \in 1..Len(heap[x].tv.idx), v \in {0, 7} :
             LET rows == View(heap.bufs, heap[x].tv)
             IN  Commit("setitem", x,
                        WriteRows(heap.bufs, heap[x].tv,
                                  [rows EXCEPT ![k] = [j \in 1..Len(@) |-> v]]),
                        heap[x])

\* x.reverse()
ReverseOn ==
    /\ Cloned
    /\ \E x \in {"s", "c"} :
          Commit("reverse", x, heap.bufs,
                 Reslice(heap[x], reverse(Positions(Deref(heap.bufs, heap[x])))))

\* x.sort_by_date(reverse=rev, force=force)
SortByDateOn ==
    /\ Cloned
    /\ \E x \in {"s", "c"}, rev \in BOOLEAN, force \in BOOLEAN :
          LET cur == Deref(heap.bufs, heap[x])
          IN  IF force
              THEN LET a == Allocate(heap.bufs, sort_by_date(cur, rev, TRUE).ts)
                   IN  Commit("sort_by_date", x, a.bufs, a.obj)
              ELSE Commit("sort_by_date", x, heap.bufs,
                          Reslice(heap[x], sort_by_date(Positions(cur), rev, FALSE).ts))

\* x.trunc(start=start, finish=finish)
TruncOn ==
    /\ Cloned
    /\ \E x \in {"s", "c"}, start \in 0..MaxLen, finish \in 0..MaxLen :
          Commit("trunc", x, heap.bufs,
                 Reslice(heap[x],
                         trunc(Positions(Deref(heap.bufs, heap[x])), start, finish)))

\* x.truncdate(start=start, finish=finish)
TruncdateOn ==
    /\ Cloned
    /\ \E x \in {"s", "c"}, start \in DayDates \cup {0}, finish \in DayDates \cup {0} :
          Commit("truncdate", x, heap.bufs,
                 Reslice(heap[x],
                         truncdate(Positions(Deref(heap.bufs, heap[x])),
                                   start, finish, FALSE).self))

\* A series of later dates to extend with.
Extension(s) ==
    Timeseries(s.frequency, <<736000>>, 200, IF IsFlat(s) THEN 0 ELSE s.dims[1])

\* x.extend(arg, overlay=overlay), arg the other object or a further series
ExtendOn ==
    /\ Cloned
    /\ \E x \in {"s", "c"}, overlay \in BOOLEAN, further \in BOOLEAN :
          LET cur == Deref(heap.bufs, heap[x])
              arg == IF further THEN Extension(cur)
                     ELSE Deref(heap.bufs, heap[IF x = "s" THEN "c" ELSE "s"])
              r   == extend(cur, arg, overlay)
              a   == Allocate(heap.bufs, r.ts)
          IN  IF r.raised # "none"
              THEN Commit("extend", x, heap.bufs, heap[x])
              ELSE Commit("extend", x, a.bufs, a.obj)

\* x += v, x -= v, x *= v for a number v: the array is updated in place
InPlaceOn ==
    /\ Cloned
    /\ \E x \in {"s", "c"}, func \in {"__iadd__", "__isub__", "__imul__"}, v \in {2} :
          LET rows == View(heap.bufs, heap[x].tv)
          IN  Commit(func, x,
                     WriteRows(heap.bufs, heap[x].tv,
                               [k \in 1..Len(rows) |->
                                   Elementwise(func, rows[k],
                                               [j \in 1..Len(rows[k]) |-> v])]),
                     heap[x])

\* x += y for the other object y: _proc_func returns a trimmed clone
InPlaceSeriesOn ==
    /\ Cloned
    /\ \E x \in {"s", "c"}, func \in {"__iadd__", "__isub__", "__imul__"} :
          LET r == proc_func(Deref(heap.bufs, heap[x]), func,
                             Deref(heap.bufs, heap[IF x = "s" THEN "c" ELSE "s"]))
              a == Allocate(heap.bufs, r.ret[1])
          IN  IF r.raised # "none"
              THEN Commit(func, x, heap.bufs, heap[x])
              ELSE Commit(func, x, a.bufs, a.obj)

NextClone ==
    \/ CloneOp
    \/ SetValueOn
    \/ ReverseOn
    \/ SortByDateOn
    \/ TruncOn
    \/ TruncdateOn
    \/ ExtendOn
    \/ InPlaceOn
    \/ InPlaceSeriesOn

SpecClone == InitClone /\ [][NextClone]_vars

\* C23: a clone shares no storage with its original: once c = s.clone() is
\* made, every mutation of c (value assignment, reverse, sort_by_date,
\* trunc, truncdate, extend, in-place operators) leaves the dates, values
\* and metadata of s as they were, and every mutation of s leaves c as it
\* was; and the clone starts out equal to the original.
CloneSharesNoStorage ==
    /\ op.name = "clone" => other = ts /\ ts = old.ts
    /\ op.name \notin {"init", "clone"} =>
          /\ op.on = "c" => ts = old.ts
          /\ op.on = "s" => other = old.other

\* A value was assigned through the clone after the clone was rebound to a
\* view of its own array, and the original kept its rows.
CloneSharesNoStorageWitness ==
    /\ op.name = "setitem"
    /\ op.on = "c"
    /\ heap.c.tv.idx # heap.s.tv.idx
    /\ other # old.other
    /\ ts = old.ts
    /\ Len(ts.dseries) > 1

(***************************************************************************)
(* The operations that return new series, with their storage: heap.s is    *)
(* the receiver and heap.c the argument series.                            *)
(***************************************************************************)
\* 2015-12-31, 2016-01-01 and 2016-01-04.
CallDates == {735963, 735964, 735967}

InitCalls ==
    /\ ts \in SeriesOver("d", Distinct(Monotonic(CallDates, MaxLen)), 0)
    /\ other \in SeriesOver("d", Distinct(Monotonic(CallDates, MaxLen)), 0)
    /\ out = NoOut
    /\ op = [name |-> "init"]
    /\ old = [ts |-> ts, other |-> other]
    /\ steps = 1
    /\ LET a == Allocate(<< >>, ts)
           b == Allocate(a.bufs, other)
       IN  heap = [bufs |-> b.bufs, s |-> a.obj, c |-> b.obj]

\* The state after a call on the receiver: the buffers and the receiver
\* it leaves, what it raised and the objects it returned.
Return(name, raised, bufs, self, results) ==
    /\ steps > 0
    /\ heap' = [bufs |-> bufs, s |-> self, c |-> heap.c]
    /\ ts' = Deref(bufs, self)
    /\ other' = Deref(bufs, heap.c)
    /\ out' = [raised |-> raised,
               ret |-> [i \in 1..Len(results) |-> Deref(bufs, results[i])],
               row |-> -1]
    /\ op' = [name |-> name]
    /\ old' = [ts |-> ts, other |-> other]
    /\ steps' = steps - 1

\* A call that raised, or whose result r owns new arrays.
ReturnNew(name, r) ==
    IF r.raised # "none" THEN Return(name, r.raised, heap.bufs, heap.s, << >>)
    ELSE LET a == Allocate(heap.bufs, r.ret[1])
         IN  Return(name, "none", a.bufs, heap.s, <<a.obj>>)

\* s.add(c, match): with match the sums are written into the clone's array
\* (self_ts.tseries += tmp_ts.tseries), without it new arrays are made.
AddCall ==
    \E match \in BOOLEAN :
       LET r  == add(ts, other, match)
           c1 == deepcopy(heap.bufs, heap.s)
       IN  IF match /\ r.raised = "none"
           THEN Return("add", "none",
                       WriteRows(c1.bufs, c1.obj.tv, r.ret[1].tseries),
                       heap.s, <<c1.obj>>)
           ELSE ReturnNew("add", r)

\* s.replace(c, match)
ReplaceCall ==
    \E match \in BOOLEAN : ReturnNew("replace", replace(ts, other, match))

\* s.combine(c, discard, pad)
CombineCall ==
    \E discard \in BOOLEAN, pad \in {<< >>, <<0>>} :
       ReturnNew("combine", combine(ts, other, discard, pad))

\* s.common_length(s, c): each result is a slice of a clone
CommonLengthCall ==
    LET c1 == deepcopy(heap.bufs, heap.s)
        c2 == deepcopy(c1.bufs, heap.c)
        r  == common_length(Positions(ts), Positions(other))
    IN  Return("common_length", "none", c2.bufs, heap.s,
               <<Reslice(c1.obj, r[1]), Reslice(c2.obj, r[2])>>)

\* s.get_diffs()
GetDiffsCall ==
    ReturnNew("get_diffs", [raised |-> "none", ret |-> <<get_diffs(ts)>>])

\* s.convert(new_freq, include_partial): the same frequency returns self
ConvertCall ==
    \E new_freq \in {"d", "w", "m", "q"}, include_partial \in BOOLEAN :
       IF ts.frequency = new_freq
       THEN Return("convert", "none", heap.bufs, heap.s, <<heap.s>>)
       ELSE ReturnNew("convert", convert(ts, new_freq, include_partial, << >>))

\* s.trunc(start, finish, new=True): slices of a clone's arrays
TruncCall ==
    \E start \in 0..MaxLen, finish \in 0..MaxLen :
       LET c1 == deepcopy(heap.bufs, heap.s)
       IN  Return("trunc", "none", c1.bufs, heap.s,
                  <<Reslice(c1.obj, trunc(Positions(ts), start, finish))>>)

\* s.truncdate(start, finish, new=True): the receiver is reversed to
\* ascending and back (when no bound fails), the result is a slice of a
\* clone
TruncdateCall ==
    \E start \in BoundsFor(ts), finish \in BoundsFor(ts) :
       LET r    == truncdate(ts, start, finish, TRUE)
           self == Reslice(heap.s, truncdate(Positions(ts), start, finish, TRUE).self)
           a    == Allocate(heap.bufs, r.ret[1])
       IN  IF r.raised # "none"
           THEN Return("truncdate", r.raised, heap.bufs, self, << >>)
           ELSE Return("truncdate", "none", a.bufs, self, <<a.obj>>)

\* s[a:b]
GetItemCall ==
    \E a \in 0..MaxLen, b \in 0..MaxLen :
       LET c1 == deepcopy(heap.bufs, heap.s)
       IN  Return("getitem", "none", c1.bufs, heap.s,
                  <<Reslice(c1.obj, getitem(Positions(ts), a, b))>>)

NextCalls ==
    \/ AddCall
    \/ ReplaceCall
    \/ CombineCall
    \/ CommonLengthCall
    \/ GetDiffsCall
    \/ ConvertCall
    \/ TruncCall
    \/ TruncdateCall
    \/ GetItemCall

SpecCalls == InitCalls /\ [][NextCalls]_vars

\* C24: add, replace, combine, common_length, get_diffs, convert,
\* trunc(new=True), truncdate(new=True) and slicing leave the dates, values
\* and row order of the receiver and of the argument series exactly as they
\* were before the call, whenever the call returns normally.
CallsLeaveInputs ==
    op.name # "init" /\ out.raised = "none" => ts = old.ts /\ other = old.other

\* add with match=True returned sums that differ from the receiver's values,
\* for a descending receiver of more than one row.
CallsLeaveInputsWitness ==
    /\ op.name = "add"
    /\ out.raised = "none"
    /\ Len(out.ret) = 1
    /\ out.ret[1].dseries = ts.dseries
    /\ out.ret[1].tseries # ts.tseries
    /\ Len(ts.dseries) > 1
    /\ series_direction(ts) = -1
    /\ ts = old.ts

(***************************************************************************)
(* sort_by_date.                                                           *)
(***************************************************************************)
InitSort ==
    /\ ts \in SeriesOver("d", AnyOrder(DayDates, MaxLen + 1), 0)
    /\ other = NoSeries
    /\ out = NoOut
    /\ op = [name |-> "init"]
    /\ old = [ts |-> ts, other |-> other]
    /\ steps = 1
    /\ heap = NoHeap

SortOp ==
    /\ steps > 0
    /\ IsArray(ts)
    /\ \E rev \in BOOLEAN, force \in BOOLEAN :
          LET r == sort_by_date(ts, rev, force)
          IN  /\ ts' = r.ts
              /\ out' = [raised |-> r.raised, ret |-> << >>, row |-> -1]
              /\ op' = [name |-> "sort_by_date", reverse |-> rev, force |-> force]
    /\ old' = [ts |-> ts, other |-> other]
    /\ steps' = steps - 1
    /\ UNCHANGED <<other, heap>>

NextSort == SortOp

SpecSort == InitSort /\ [][NextSort]_vars

\* How many rows of s pair date d with values v.
RowCount(s, d, v) ==
    Cardinality({i \in 1..Len(s.dseries) : s.dseries[i] = d /\ s.tseries[i] = v})

\* r holds exactly the (date, value) rows of s, each as often as s does.
SameRows(r, s) ==
    /\ Len(r.dseries) = Len(s.dseries)
    /\ Len(r.tseries) = Len(s.tseries)
    /\ \A i \in 1..Len(s.dseries) :
          RowCount(r, s.dseries[i], s.tseries[i]) = RowCount(s, s.dseries[i], s.tseries[i])

InOrder(d, rev) ==
    \A i \in 1..(Len(d) - 1) : IF rev THEN d[i] >= d[i + 1] ELSE d[i] <= d[i + 1]

\* C25: sort_by_date(reverse=r) only reorders rows: the series afterwards
\* holds the same (date, value) rows, ascending by date when r is false and
\* descending when r is true; with force=True from any row order, repeated
\* dates included, and with force=False from any monotonic order.
SortOnlyReorders ==
    op.name = "sort_by_date" /\ (op.force \/ IsMonotonic(old.ts.dseries)) =>
        /\ out.raised = "none"
        /\ IsArray(ts)
        /\ SameRows(ts, old.ts)
        /\ InOrder(ts.dseries, op.reverse)

\* The same without repeated dates, which is what the code achieves.
SortOnlyReordersDistinct ==
    /\ op.name = "sort_by_date"
    /\ op.force \/ IsMonotonic(old.ts.dseries)
    /\ \A i, j \in 1..Len(old.ts.dseries) :
          old.ts.dseries[i] = old.ts.dseries[j] => i = j
    => /\ out.raised = "none"
       /\ SameRows(ts, old.ts)
       /\ InOrder(ts.dseries, op.reverse)

\* The unforced sort of a monotonic series, repeated dates included.
SortUnforcedMonotonic ==
    op.name = "sort_by_date" /\ ~op.force /\ IsMonotonic(old.ts.dseries) =>
        SameRows(ts, old.ts) /\ InOrder(ts.dseries, op.reverse)

(***************************************************************************)
(* The arithmetic operators on series of different lengths.                *)
(***************************************************************************)
InitArith ==
    /\ ts \in SeriesOver("d", Monotonic(DayDates, MaxLen + 1), 0)
    /\ other \in SeriesOver("d", Monotonic(DayDates, MaxLen + 1), 100)
    /\ out = NoOut
    /\ op = [name |-> "init"]
    /\ old = [ts |-> ts, other |-> other]
    /\ steps = 1
    /\ heap = NoHeap

NextArith == Arith

SpecArith == InitArith /\ [][NextArith]_vars

\* r is the sum of the first m rows of a and b by position, on a's dates.
IsSumOfHeads(r, a, b, m) ==
    /\ Len(r.dseries) = m
    /\ Len(r.tseries) = m
    /\ \A i \in 1..m :
          /\ r.dseries[i] = a.dseries[i]
          /\ r.tseries[i] = RowSum(a.tseries[i], b.tseries[i])

\* C26: ts + other and ts += other, for a series other with matching
\* columns and a different row count, do not fail: the result has
\* min(len(ts), len(other)) rows, its values are the sums by position of the
\* first rows of the operands and its dates are the first dates of the left
\* operand.
ArithTruncates ==
    /\ op.name \in {"__add__", "__iadd__"}
    /\ ~ColumnsDiffer(old.ts, old.other)
    /\ Len(old.ts.tseries) # Len(old.other.tseries)
    => /\ out.raised = "none"
       /\ Len(out.ret) = 1
       /\ IsSumOfHeads(out.ret[1], old.ts, old.other,
                       Min(Len(old.ts.tseries), Len(old.other.tseries)))
       /\ op.name = "__iadd__" => ts = out.ret[1]
       /\ op.name = "__add__" => ts = old.ts

\* ts += other cut the longer left operand down to two summed rows.
ArithTruncatesWitness ==
    /\ op.name = "__iadd__"
    /\ Len(old.other.tseries) = 2
    /\ Len(old.ts.tseries) > 2
    /\ Len(ts.tseries) = 2
    /\ ts.dseries = SubSeq(old.ts.dseries, 1, 2)
    /\ ts.tseries[2] = RowSum(old.ts.tseries[2], old.other.tseries[2])
    /\ ~IsFlat(ts)

\* C27: the series convert returns has its rows in the direction of the
\* input: an ascending input gives an ascending output and a descending
\* input a descending output.
ConvertKeepsDirection ==
    op.name = "convert" /\ out.raised = "none" /\ Len(out.ret) = 1 =>
        /\ series_direction(old.ts) = 1 => InOrder(out.ret[1].dseries, FALSE)
        /\ series_direction(old.ts) = -1 => InOrder(out.ret[1].dseries, TRUE)

\* The same for the series of day-type frequencies only.
ConvertKeepsDirectionOrdinal ==
    old.ts.dtype = "int32" => ConvertKeepsDirection

(***************************************************************************)
(* years.                                                                  *)
(***************************************************************************)
\* The dict years() builds: the monthly conversion's rows are entered in
\* storage order, a later row of the same year replacing an earlier one.
years(s, include_partial) ==
    LET r == fc_convert(s, "m", include_partial, << >>)
    IN  IF r.raised # "none" THEN [raised |-> r.raised, year_dict |-> << >>]
        ELSE LET ts_years == r.ret[1]
                 n        == Len(ts_years.tseries)
                 year(i)  == get_datetime(ts_years.frequency, ts_years.dseries[i]).year
             IN  [raised |-> "none",
                  year_dict |->
                     [y \in {year(i) : i \in 1..n} |->
                         LET last == CHOOSE i \in 1..n :
                                        year(i) = y /\ \A j \in 1..n : year(j) = y => j <= i
                         IN  ts_years.tseries[last]]]

\* 2015-12-31, 2016-01-01, 2016-01-29, 2016-02-01 and 2016-02-29.
YearDates == {735963, 735964, 735992, 735995, 736023}

InitYears ==
    /\ ts \in SeriesOver("d", Distinct(Monotonic(YearDates, MaxLen + 1)), 0)
    /\ other = NoSeries
    /\ out = NoOut
    /\ op = [name |-> "init"]
    /\ old = [ts |-> ts, other |-> other]
    /\ steps = 1
    /\ heap = NoHeap

YearsOp ==
    /\ steps > 0
    /\ IsArray(ts)
    /\ \E include_partial \in BOOLEAN :
          LET r == years(ts, include_partial)
          IN  /\ out' = [raised |-> r.raised, ret |-> << >>, row |-> -1,
                         year_dict |-> r.year_dict]
              /\ op' = [name |-> "years", include_partial |-> include_partial]
    /\ old' = [ts |-> ts, other |-> other]
    /\ steps' = steps - 1
    /\ UNCHANGED <<ts, other, heap>>

NextYears == YearsOp

SpecYears == InitYears /\ [][NextYears]_vars

YearOf(n) == fromordinal(n).year

\* The values of s at the last date it has in year y.
EndOfYear(s, y) ==
    LET last == CHOOSE i \in 1..Len(s.dseries) :
                    /\ YearOf(s.dseries[i]) = y
                    /\ \A j \in 1..Len(s.dseries) :
                          YearOf(s.dseries[j]) = y => s.dseries[j] <= s.dseries[i]
    IN  s.tseries[last]

\* C28: years() returns a mapping with one entry for every calendar year
\* in which the series has a row, whose value is the series' value at the
\* last available date of that year, for an ascending and for a descending
\* series alike.
YearsEndOfYear ==
    op.name = "years" /\ op.include_partial =>
        /\ out.raised = "none"
        /\ DOMAIN out.year_dict = {YearOf(ts.dseries[i]) : i \in 1..Len(ts.dseries)}
        /\ \A y \in DOMAIN out.year_dict : out.year_dict[y] = EndOfYear(ts, y)

\* The same for ascending series of two or three of the dates 2015-12-31,
\* 2016-01-29 and 2016-02-01, each the only row of its month.
YearsEndOfYearAscending ==
    /\ op.name = "years" /\ op.include_partial
    /\ series_direction(ts) = 1
    /\ Range(ts.dseries) \subseteq {735963, 735992, 735995}
    => /\ out.raised = "none"
       /\ DOMAIN out.year_dict = {YearOf(ts.dseries[i]) : i \in 1..Len(ts.dseries)}
       /\ \A y \in DOMAIN out.year_dict : out.year_dict[y] = EndOfYear(ts, y)

\* C29: when truncdate raises because a bound cannot be resolved (start
\* later than every date, or finish earlier than every date), the receiver
\* keeps exactly the dates, values and row order it had before the call,
\* for ascending and descending series, with new=False and with new=True.
TruncdateFailureLeavesReceiver ==
    op.name = "truncdate" /\ out.raised # "none" => ts = old.ts

\* The same for the series that are not descending.
TruncdateFailureLeavesAscending ==
    op.name = "truncdate" /\ out.raised # "none" /\ series_direction(old.ts) # -1 =>
        ts = old.ts

(***************************************************************************)
(* Daily series with gaps, converted to monthly.                           *)
(***************************************************************************)
\* 2015-12-31, 2016-01-01, 2016-01-29, 2016-02-01, 2016-02-29, 2016-03-04.
GapDates == YearDates \cup {SpanEnd}

InitGaps ==
    /\ ts \in {WithEndOfPeriod(Timeseries("d", d, 0, 0), e) :
                  d \in Distinct(Monotonic(GapDates, MaxLen + 1)), e \in BOOLEAN}
    /\ other = NoSeries
    /\ out = NoOut
    /\ op = [name |-> "init"]
    /\ old = [ts |-> ts, other |-> other]
    /\ steps = 1
    /\ heap = NoHeap

SpecGaps == InitGaps /\ [][NextConvert]_vars

MonthsOf(d) == {MonthOf(d[i]) : i \in 1..Len(d)}

\* r has exactly one row for each calendar month in which s has a row, the
\* last row s has in that month.
OneRowPerMonth(r, s) ==
    /\ MonthsOf(r.dseries) = MonthsOf(s.dseries)
    /\ Len(r.dseries) = Cardinality(MonthsOf(s.dseries))
    /\ \A i \in 1..Len(r.dseries) : MonthEdgeRow(s, r.dseries[i], r.tseries[i])

\* C30: a daily series with strictly monotonic dates, gaps of any size
\* allowed, converted to monthly with end_of_period and include_partial
\* gives exactly one row for each calendar month in which the input has a
\* row, namely the last available row of that month: every change of
\* calendar month between consecutive rows is taken as a period boundary.
MonthlyWithGaps ==
    (/\ op.name = "convert"
     /\ old.ts.frequency = "d"
     /\ op.new_freq = "m"
     /\ op.include_partial
     /\ old.ts.end_of_period) =>
        /\ out.raised = "none"
        /\ Len(out.ret) = 1
        /\ OneRowPerMonth(out.ret[1], old.ts)

\* Between every two consecutive rows in different months the day of the
\* month falls going forward in time, and there is more than one month.
DayFallsAtMonthChange(d) ==
    /\ Cardinality(MonthsOf(d)) > 1
    /\ \A i \in 1..(Len(d) - 1) :
          MonthOf(d[i]) # MonthOf(d[i + 1]) =>
              fromordinal(Max(d[i], d[i + 1])).day < fromordinal(Min(d[i], d[i + 1])).day

\* The same for the series whose month changes show in the day of the month.
MonthlyWithGapsDayFalls ==
    (/\ op.name = "convert"
     /\ old.ts.frequency = "d"
     /\ op.new_freq = "m"
     /\ op.include_partial
     /\ old.ts.end_of_period
     /\ DayFallsAtMonthChange(old.ts.dseries)) =>
        /\ out.raised = "none"
        /\ Len(out.ret) = 1
        /\ OneRowPerMonth(out.ret[1], old.ts)

====
